---- MODULE Spec2Model ----
(***************************************************************************)
(* A model of runestick's native-module layer: the Module registry         *)
(* (crates/runestick/src/module.rs), the calling convention that the       *)
(* impl_register! macro generates for native functions, and the borrow     *)
(* discipline of the shared-ownership containers the calling convention    *)
(* coerces reference parameters from.                                      *)
(*                                                                         *)
(* The specifications share the variables:                                 *)
(*   Spec        the setup phase: functions, members and types;            *)
(*   SpecData    the setup phase: functions, macros, constants, unit and   *)
(*               enums;                                                    *)
(*   SpecDerive  the setup phase: types whose install hook the derive      *)
(*               generates (crates/runestick-macros/src/context.rs);       *)
(*   SpecCustom  the setup phase: a deriving type whose annotations name   *)
(*               custom paths;                                             *)
(*   SpecFrame   the setup phase: every registration operation on a        *)
(*               Module from each constructor;                             *)
(*   SpecStdVec  the construction of the std::vec module, then its use;    *)
(*   SpecRun     functions and constants registered, handlers called;      *)
(*   SpecCall    the run phase: handlers invoked on an operand stack;      *)
(*   SpecCounter the run phase: the members of a registered Counter;       *)
(*   SpecEnum    the run phase: the constructors of internal enums;        *)
(*   SpecVec     the index-gets and the Slice index-set of the std::vec    *)
(*               module.                                                   *)
(***************************************************************************)
EXTENDS Integers, Sequences, FiniteSets, TLC

VARIABLES
    item,                  \* Module.item
    functions,             \* Module.functions: Item -> ModuleFn
    associated_functions,  \* Module.associated_functions: ModuleAssocKey -> ModuleAssociatedFn
    types,                 \* Module.types: Hash -> ModuleType
    result,                \* what the last registration call returned
    nops,                  \* number of registration calls made so far
    stack,                 \* the operand stack, bottom first
    access,                \* borrow state of each shared-ownership container
    held,                  \* guards held outside of any native call, per container
    fields,                \* the `value` field of each container's Counter
    futures,               \* live futures produced by asynchronous handlers
    last,                  \* what the last handler invocation did
    ncalls,                \* number of handler invocations so far
    macros,                \* Module.macros: Item -> ModuleMacro
    constants,             \* Module.constants: Item -> ConstValue
    unit_type,             \* Module.unit_type: Option<ModuleUnitType>
    internal_enums,        \* Module.internal_enums: Vec<ModuleInternalEnum>
    vec,                   \* the elements of one Vec of the std::vec module
    slice,                 \* the Slice over that Vec a range get returned
    got,                   \* what the last index-get or index-set returned
    vec_access             \* borrow state of the container that holds the Vec

regVars == <<item, functions, associated_functions, types, result, nops,
             macros, constants, unit_type, internal_enums>>
callVars == <<stack, access, held, fields, futures, last, ncalls>>
vecVars == <<vec, slice, got, vec_access>>
vars == <<item, functions, associated_functions, types, result, nops,
          stack, access, held, fields, futures, last, ncalls,
          macros, constants, unit_type, internal_enums, vec, slice, got,
          vec_access>>

(***************************************************************************)
(* Bounds of the model.                                                    *)
(***************************************************************************)
MaxOps == 3
MaxCalls == 1
MaxStack == 3
MaxShared == 2

(***************************************************************************)
(* Finite maps, as the HashMaps of Module.                                 *)
(***************************************************************************)
EmptyMap == [x \in {} |-> x]

ContainsKey(m, k) == k \in DOMAIN m

Insert(m, k, v) == [x \in DOMAIN m \cup {k} |-> IF x = k THEN v ELSE m[x]]

(***************************************************************************)
(* Type identity.  Hash values are opaque; equal identities hash equal.    *)
(* Clash is a host type whose TypeOf implementation returns the same       *)
(* fingerprint as Counter's.                                               *)
(***************************************************************************)
HostTypes == {"Counter", "Clash", "MyBytes"}

TypeHash(T) ==
    CASE T = "Counter" -> [of |-> "type", id |-> "h1"]
      [] T = "Clash"   -> [of |-> "type", id |-> "h1"]
      [] T = "MyBytes" -> [of |-> "type", id |-> "h2"]
      [] T = "Gauge"   -> [of |-> "type", id |-> "h3"]
      [] T = "Vec"     -> [of |-> "type", id |-> "h4"]
      [] T = "Slice"   -> [of |-> "type", id |-> "h5"]
      [] T = "Meter"   -> [of |-> "type", id |-> "h6"]

TypeInfoOf(T) == [kind |-> "Any", name |-> T]

HashOf(s) == [of |-> "str", id |-> s]

ProtocolHash(p) == [of |-> "protocol", id |-> p]

(***************************************************************************)
(* The native functions the host registers.  params lists the declared     *)
(* parameter types in call order (for a method the receiver is first);     *)
(* async says whether the function returns a future.                       *)
(***************************************************************************)
PInt == [k |-> "Int", ty |-> ""]
PValue == [k |-> "Value", ty |-> ""]
PRef(T) == [k |-> "Ref", ty |-> T]
PMut(T) == [k |-> "Mut", ty |-> T]

NativeFns == {"add_ten", "empty", "async_empty", "increment", "value",
              "len", "merge", "test", "raw_count",
              "Option::Some", "Option::None", "Result::Ok", "Result::Err",
              "GeneratorState::Complete", "GeneratorState::Yielded",
              "get_level", "set_level", "get_limit", "reset",
              "Vec::new", "Vec::clear", "Vec::clone", "Vec::extend",
              "vec_get", "Vec::into_iterator", "Vec::len", "Vec::pop",
              "Vec::push", "Vec::remove", "Vec::set", "sort_int",
              "Slice::len", "slice_get", "Slice::set", "Slice::string_debug",
              "level_copy", "level_set", "level_add_assign",
              "level_sub_assign", "label_clone",
              "Meter::read", "Meter::write", "Meter::add", "Meter::label"}

Params(f) ==
    CASE f = "add_ten"     -> <<PInt>>
      [] f = "empty"       -> <<>>
      [] f = "async_empty" -> <<>>
      [] f = "increment"   -> <<PMut("Counter"), PInt>>
      [] f = "value"       -> <<PRef("Counter")>>
      [] f = "len"         -> <<PRef("MyBytes")>>
      [] f = "merge"       -> <<PMut("Counter"), PRef("Counter")>>
      [] f = "test"        -> <<PRef("Counter")>>
      [] f = "raw_count"   -> <<>>
      [] f = "Option::Some" -> <<PValue>>
      [] f = "Option::None" -> <<>>
      [] f = "Result::Ok"   -> <<PValue>>
      [] f = "Result::Err"  -> <<PValue>>
      [] f = "GeneratorState::Complete" -> <<PValue>>
      [] f = "GeneratorState::Yielded"  -> <<PValue>>
      [] f = "get_level"   -> <<PRef("Gauge")>>
      [] f = "set_level"   -> <<PMut("Gauge"), PInt>>
      [] f = "get_limit"   -> <<PRef("Gauge")>>
      [] f = "reset"       -> <<PMut("Gauge")>>
      [] f = "Vec::new"    -> <<>>
      [] f = "Vec::clear"  -> <<PMut("Vec")>>
      [] f = "Vec::clone"  -> <<PRef("Vec")>>
      [] f = "Vec::extend" -> <<PMut("Vec"), PValue>>
      [] f = "vec_get"     -> <<PRef("Vec"), PValue>>
      [] f = "Vec::into_iterator" -> <<PRef("Vec")>>
      [] f = "Vec::len"    -> <<PRef("Vec")>>
      [] f = "Vec::pop"    -> <<PMut("Vec")>>
      [] f = "Vec::push"   -> <<PMut("Vec"), PValue>>
      [] f = "Vec::remove" -> <<PMut("Vec"), PInt>>
      [] f = "Vec::set"    -> <<PMut("Vec"), PInt, PValue>>
      [] f = "sort_int"    -> <<PMut("Vec")>>
      [] f = "Slice::len"  -> <<PRef("Slice")>>
      [] f = "slice_get"   -> <<PRef("Slice"), PValue>>
      [] f = "Slice::set"  -> <<PRef("Slice"), PInt, PValue>>
      [] f = "Slice::string_debug" -> <<PRef("Slice"), PMut("String")>>
      [] f = "level_copy"  -> <<PRef("Meter")>>
      [] f = "level_set"   -> <<PMut("Meter"), PInt>>
      [] f = "level_add_assign" -> <<PMut("Meter"), PInt>>
      [] f = "level_sub_assign" -> <<PMut("Meter"), PInt>>
      [] f = "label_clone" -> <<PRef("Meter")>>
      [] f = "Meter::read" -> <<PRef("Meter")>>
      [] f = "Meter::write" -> <<PMut("Meter"), PInt>>
      [] f = "Meter::add"  -> <<PMut("Meter"), PInt>>
      [] f = "Meter::label" -> <<PRef("Meter")>>

IsAsync(f) == f \in {"async_empty", "test"}

(***************************************************************************)
(* Handlers: a native function behind the uniform (stack, args) shape.     *)
(* shape is the trait whose fn_call the closure calls; a raw handler is    *)
(* the function itself.                                                    *)
(***************************************************************************)
Handler(shape, f) == [shape |-> shape, f |-> f]

\* $count of the free-function impls: the number of declared parameters.
Count(f) == Len(Params(f))

\* $count of the instance impls: the parameters after the receiver.
InstCount(f) == Len(Params(f)) - 1

\* Function::args / AsyncFunction::args.
FunctionArgs(f) == Count(f)

InstFnArgs_without_receiver(f) == InstCount(f)

\* InstFn::args / AsyncInstFn::args.
InstFnArgs(f) == InstCount(f) + 1

instance_type_hash(f) == TypeHash(Params(f)[1].ty)

instance_type_info(f) == TypeInfoOf(Params(f)[1].ty)

(***************************************************************************)
(* The registry.  A registration returns Ok or a ContextError.             *)
(***************************************************************************)
Ok == [kind |-> "Ok"]

ConflictingFunctionName(name) ==
    [kind |-> "ConflictingFunctionName", name |-> name]

ConflictingType(it, existing) ==
    [kind |-> "ConflictingType", item |-> it, existing |-> existing]

ConflictingInstanceFunction(type_info, name) ==
    [kind |-> "ConflictingInstanceFunction", type_info |-> type_info,
     name |-> name]

ModuleFn(handler, args) == [handler |-> handler, args |-> args]

ModuleType(name, type_info) == [name |-> name, type_info |-> type_info]

ModuleAssociatedFn(handler, args, type_info, name) ==
    [handler |-> handler, args |-> args, type_info |-> type_info,
     name |-> name]

KindInstance == [kind |-> "Instance", protocol |-> ""]

KindFieldFn(protocol) == [kind |-> "FieldFn", protocol |-> protocol]

ModuleAssocKey_without_kind(type_hash, hash, kind) ==
    [type_hash |-> type_hash, hash |-> hash, kind |-> KindInstance]

ModuleAssocKey_without_type_hash(type_hash, hash, kind) ==
    [type_hash |-> TypeHash("Vec"), hash |-> hash, kind |-> kind]

ModuleAssocKey(type_hash, hash, kind) ==
    [type_hash |-> type_hash, hash |-> hash, kind |-> kind]

Some(x) == [some |-> TRUE, v |-> x]

None == [some |-> FALSE, v |-> 0]

\* InstFnNameHash: a member is named by a string or by a Hash.
StrName(s) == [str |-> TRUE, s |-> s, h |-> HashOf(s)]

HashName(h) == [str |-> FALSE, s |-> "", h |-> h]

inst_fn_name_hash(name) == IF name.str THEN HashOf(name.s) ELSE name.h

into_name(name) == IF name.str THEN name.s ELSE ""

\* Module::function.
function(tab, name, f) ==
    IF ContainsKey(tab, name)
    THEN [tab |-> tab, res |-> ConflictingFunctionName(name)]
    ELSE [tab |-> Insert(tab, name,
                    ModuleFn(Handler("Function", f), Some(FunctionArgs(f)))),
          res |-> Ok]

async_function_overwrites(tab, name, f) ==
    [tab |-> Insert(tab, name,
                ModuleFn(Handler("AsyncFunction", f), Some(FunctionArgs(f)))),
     res |-> Ok]

\* Module::async_function.
async_function(tab, name, f) ==
    IF ContainsKey(tab, name)
    THEN [tab |-> tab, res |-> ConflictingFunctionName(name)]
    ELSE [tab |-> Insert(tab, name,
                    ModuleFn(Handler("AsyncFunction", f), Some(FunctionArgs(f)))),
          res |-> Ok]

raw_fn_records_arity(tab, name, f) ==
    IF ContainsKey(tab, name)
    THEN [tab |-> tab, res |-> ConflictingFunctionName(name)]
    ELSE [tab |-> Insert(tab, name, ModuleFn(Handler("Raw", f), Some(0))),
          res |-> Ok]

\* Module::raw_fn.
raw_fn(tab, name, f) ==
    IF ContainsKey(tab, name)
    THEN [tab |-> tab, res |-> ConflictingFunctionName(name)]
    ELSE [tab |-> Insert(tab, name, ModuleFn(Handler("Raw", f), None)),
          res |-> Ok]

\* Module::assoc_fn.
assoc_fn(tab, name, f, kind) ==
    LET type_hash == instance_type_hash(f)
        type_info == instance_type_info(f)
        key == ModuleAssocKey(type_hash, inst_fn_name_hash(name), kind)
    IN  IF ContainsKey(tab, key)
        THEN [tab |-> tab,
              res |-> ConflictingInstanceFunction(type_info, into_name(name))]
        ELSE [tab |-> Insert(tab, key,
                        ModuleAssociatedFn(Handler("InstFn", f),
                            Some(InstFnArgs(f)), type_info, into_name(name))),
              res |-> Ok]

inst_fn_needs_known_owner(tab, name, f) ==
    IF \E key \in DOMAIN tab : key.type_hash = instance_type_hash(f)
    THEN assoc_fn(tab, name, f, KindInstance)
    ELSE [tab |-> tab, res |-> [kind |-> "MissingType"]]

\* Module::inst_fn.
inst_fn(tab, name, f) == assoc_fn(tab, name, f, KindInstance)

field_fn_async_path(tab, protocol, name, f) ==
    LET type_info == instance_type_info(f)
        key == ModuleAssocKey(instance_type_hash(f), inst_fn_name_hash(name),
                              KindFieldFn(protocol))
    IN  IF ContainsKey(tab, key)
        THEN [tab |-> tab,
              res |-> ConflictingInstanceFunction(type_info, into_name(name))]
        ELSE [tab |-> Insert(tab, key,
                        ModuleAssociatedFn(Handler("AsyncInstFn", f),
                            Some(InstFnArgs(f)), type_info, into_name(name))),
              res |-> Ok]

field_fn(tab, protocol, name, f) == assoc_fn(tab, name, f, KindFieldFn(protocol))

async_inst_fn_overwrites(tab, name, f) ==
    LET key == ModuleAssocKey(instance_type_hash(f), inst_fn_name_hash(name),
                              KindInstance)
    IN  [tab |-> Insert(tab, key,
                    ModuleAssociatedFn(Handler("AsyncInstFn", f),
                        Some(InstFnArgs(f)), instance_type_info(f),
                        into_name(name))),
         res |-> Ok]

\* Module::async_inst_fn.
async_inst_fn(tab, name, f) ==
    LET type_hash == instance_type_hash(f)
        type_info == instance_type_info(f)
        key == ModuleAssocKey(type_hash, inst_fn_name_hash(name), KindInstance)
    IN  IF ContainsKey(tab, key)
        THEN [tab |-> tab,
              res |-> ConflictingInstanceFunction(type_info, into_name(name))]
        ELSE [tab |-> Insert(tab, key,
                        ModuleAssociatedFn(Handler("AsyncInstFn", f),
                            Some(InstFnArgs(f)), type_info, into_name(name))),
              res |-> Ok]

(***************************************************************************)
(* derive(Any): the install hook the code generator expands                *)
(* (runestick-macros/src/context.rs).                                      *)
(***************************************************************************)
\* One item of a #[rune(..)] annotation: a bare path such as `get`, or a
\* name and a string such as `add_assign = "Meter::add"`.
MetaPath(path) == [kind |-> "Path", path |-> path, lit |-> ""]

MetaNameValue(path, lit) == [kind |-> "NameValue", path |-> path, lit |-> lit]

\* Context::parse_field_custom: the custom path of an annotation item.
parse_field_custom(meta) ==
    IF meta.kind = "Path" THEN [some |-> FALSE, v |-> ""]
    ELSE [some |-> TRUE, v |-> meta.lit]

\* FieldProtocol: the protocol an item names and its custom path.
FieldProtocol(meta) ==
    [protocol |-> meta.path, custom |-> parse_field_custom(meta)]

\* parse_field_attrs: the field's copy flag and its protocols, in order.
FieldAttrs(copy, metas) ==
    [copy |-> copy,
     protocols |-> [j \in 1 .. Len(metas) |-> FieldProtocol(metas[j])]]

\* A named field of a deriving struct: its name and the attributes parsed
\* from its annotation.
Field(name, metas) == [name |-> name, attrs |-> FieldAttrs(FALSE, metas)]

CopyField(name, metas) == [name |-> name, attrs |-> FieldAttrs(TRUE, metas)]

\* The input of the derive: the install_with attribute ("" when absent) and
\* the fields in declaration order.
\*   Counter { #[rune(get)] value }
\*   #[rune(install_with = "Gauge::install")]
\*   Gauge { #[rune(get, set)] level, raw, #[rune(get)] limit }
\*   Meter { #[rune(copy, get = "Meter::read", set = "Meter::write",
\*                  add_assign = "Meter::add", sub_assign)] level,
\*           #[rune(get = "Meter::label")] label }
\* Clash and MyBytes carry no annotation.
DeriveInput(T) ==
    CASE T = "Counter" ->
            [install_with |-> "",
             fields |-> <<Field("value", <<MetaPath("GET")>>)>>]
      [] T = "Gauge" ->
            [install_with |-> "Gauge::install",
             fields |-> <<Field("level", <<MetaPath("GET"), MetaPath("SET")>>),
                          Field("raw", <<>>),
                          Field("limit", <<MetaPath("GET")>>)>>]
      [] T = "Meter" ->
            [install_with |-> "",
             fields |-> <<CopyField("level",
                              <<MetaNameValue("GET", "Meter::read"),
                                MetaNameValue("SET", "Meter::write"),
                                MetaNameValue("ADD_ASSIGN", "Meter::add"),
                                MetaPath("SUB_ASSIGN")>>),
                          Field("label",
                              <<MetaNameValue("GET", "Meter::label")>>)>>]
      [] OTHER ->
            [install_with |-> "", fields |-> <<>>]

\* The closure a protocol generator emits for a field of T; for GET it is
\* the one that clones the field.
Accessor(T, name, protocol) ==
    CASE T = "Counter" /\ name = "value" /\ protocol = "GET" -> "value"
      [] T = "Gauge" /\ name = "level" /\ protocol = "GET"   -> "get_level"
      [] T = "Gauge" /\ name = "level" /\ protocol = "SET"   -> "set_level"
      [] T = "Gauge" /\ name = "limit" /\ protocol = "GET"   -> "get_limit"
      [] T = "Meter" /\ name = "level" /\ protocol = "SET"   -> "level_set"
      [] T = "Meter" /\ name = "level" /\ protocol = "ADD_ASSIGN"
            -> "level_add_assign"
      [] T = "Meter" /\ name = "level" /\ protocol = "SUB_ASSIGN"
            -> "level_sub_assign"
      [] T = "Meter" /\ name = "label" /\ protocol = "GET"   -> "label_clone"

\* The closure the GET generator emits for a field marked copy.
CopyAccessor(T, name) ==
    CASE T = "Meter" /\ name = "level" -> "level_copy"

generate_get_uses_custom(T, field, p) ==
    IF p.custom.some THEN p.custom.v
    ELSE IF field.attrs.copy THEN CopyAccessor(T, field.name)
         ELSE Accessor(T, field.name, "GET")

\* The generator of `get`: the field itself when it is copy, else its clone.
generate_get(T, field, p) ==
    IF field.attrs.copy THEN CopyAccessor(T, field.name)
    ELSE Accessor(T, field.name, "GET")

\* The generator of `set`: plain assignment.
generate_set(T, field, p) == Accessor(T, field.name, "SET")

\* generate_op!: the custom path when one was given, else the closure that
\* applies the operator to the field.
generate_op(T, field, p) ==
    IF p.custom.some THEN p.custom.v
    ELSE Accessor(T, field.name, p.protocol)

\* FieldProtocol::generate: the function the emitted field_fn registers.
generate(T, field, p) ==
    CASE p.protocol = "GET" -> generate_get(T, field, p)
      [] p.protocol = "SET" -> generate_set(T, field, p)
      [] OTHER              -> generate_op(T, field, p)

\* One statement of the generated hook: `#install_with(module)?;` or
\* `module.field_fn(#protocol, #name, <closure>)?;`.
CustomInstaller(path) ==
    [kind |-> "custom", path |-> path, protocol |-> "", name |-> "", f |-> ""]

FieldFnInstaller(protocol, name, f) ==
    [kind |-> "field_fn", path |-> "", protocol |-> protocol, name |-> name,
     f |-> f]

\* The installers of one field: one per protocol annotation, in order.
ProtocolInstallers(T, field) ==
    [j \in 1 .. Len(field.attrs.protocols) |->
        FieldFnInstaller(field.attrs.protocols[j].protocol, field.name,
                         generate(T, field, field.attrs.protocols[j]))]

RECURSIVE FieldInstallers(_, _, _)
FieldInstallers(T, named, i) ==
    IF i > Len(named)
    THEN <<>>
    ELSE ProtocolInstallers(T, named[i]) \o FieldInstallers(T, named, i + 1)

expand_install_with_custom_last(T) ==
    LET input == DeriveInput(T)
    IN  FieldInstallers(T, input.fields, 1)
        \o (IF input.install_with # ""
            THEN <<CustomInstaller(input.install_with)>>
            ELSE <<>>)

\* Context::expand_install_with: the statements of the hook, in order.
expand_install_with(T) ==
    LET input == DeriveInput(T)
    IN  (IF input.install_with # ""
         THEN <<CustomInstaller(input.install_with)>>
         ELSE <<>>)
        \o FieldInstallers(T, input.fields, 1)

\* Gauge::install, the function Gauge names in install_with: it registers
\* the method `reset`.
CustomInstall(path, tab) == inst_fn(tab, StrName("reset"), "reset")

RunInstaller(call, tab) ==
    IF call.kind = "custom"
    THEN CustomInstall(call.path, tab)
    ELSE field_fn(tab, call.protocol, StrName(call.name), call.f)

\* The statements run in order; `?` returns the first error.
RECURSIVE RunInstallers(_, _, _)
RunInstallers(calls, i, tab) ==
    IF i > Len(calls)
    THEN [tab |-> tab, res |-> Ok]
    ELSE LET r == RunInstaller(calls[i], tab)
         IN  IF r.res # Ok THEN r ELSE RunInstallers(calls, i + 1, r.tab)

\* T::install_with: the generated hook; a type without annotations gets a
\* hook with no statement, which is the trait's default.
install_with(T, tab) == RunInstallers(expand_install_with(T), 1, tab)

ty_rolls_back(tys, tab, T) ==
    LET type_hash == TypeHash(T)
        new == ModuleType(T, TypeInfoOf(T))
        inserted == Insert(tys, type_hash, new)
    IN  IF ContainsKey(tys, type_hash)
        THEN [types |-> inserted, tab |-> tab,
              res |-> ConflictingType(<<T>>, tys[type_hash].type_info)]
        ELSE LET hook == install_with(T, tab)
             IN  IF hook.res = Ok
                 THEN [types |-> inserted, tab |-> hook.tab, res |-> hook.res]
                 ELSE [types |-> tys, tab |-> tab, res |-> hook.res]

\* Module::ty: HashMap::insert stores the new record and hands back the old.
ty(tys, tab, T) ==
    LET type_hash == TypeHash(T)
        new == ModuleType(T, TypeInfoOf(T))
        inserted == Insert(tys, type_hash, new)
    IN  IF ContainsKey(tys, type_hash)
        THEN [types |-> inserted, tab |-> tab,
              res |-> ConflictingType(<<T>>, tys[type_hash].type_info)]
        ELSE LET hook == install_with(T, tab)
             IN  [types |-> inserted, tab |-> hook.tab, res |-> hook.res]

(***************************************************************************)
(* Macros, constants, the unit type and the internal enums.                *)
(***************************************************************************)
ModuleMacro(handler) == [handler |-> handler]

macro_overwrites(tab, name, f) ==
    [tab |-> Insert(tab, name, ModuleMacro(f)),
     res |-> IF ContainsKey(tab, name) THEN ConflictingFunctionName(name)
             ELSE Ok]

\* Module::macro_.
macro_(tab, name, f) ==
    IF ContainsKey(tab, name)
    THEN [tab |-> tab, res |-> ConflictingFunctionName(name)]
    ELSE [tab |-> Insert(tab, name, ModuleMacro(f)), res |-> Ok]

ConflictingConstantName(name) ==
    [kind |-> "ConflictingConstantName", name |-> name]

ValueError_unwrapped(error) == [kind |-> "NativeError", error |-> error]

ValueError(error) == [kind |-> "ValueError", error |-> error]

\* The values a host passes to constant(): an integer, a string, a value
\* whose ToValue implementation fails, and a Counter, which is a dynamic
\* value but has no constant form.
HInt(n) == [h |-> "Integer", n |-> n]

HString == [h |-> "String", n |-> 0]

HFailing == [h |-> "Failing", n |-> 0]

HCounter == [h |-> "Any", n |-> 0]

\* ToValue::to_value of a host value.
to_value(value) ==
    CASE value.h = "Integer" -> [ok |-> TRUE, v |-> [t |-> "Integer", n |-> value.n, c |-> ""],
                                 error |-> ""]
      [] value.h = "String"  -> [ok |-> TRUE, v |-> [t |-> "String", n |-> value.n, c |-> ""],
                                 error |-> ""]
      [] value.h = "Any"     -> [ok |-> TRUE, v |-> [t |-> "Any", n |-> value.n, c |-> "c1"],
                                 error |-> ""]
      [] OTHER               -> [ok |-> FALSE, v |-> [t |-> "Unit", n |-> 0, c |-> ""],
                                 error |-> "to_value"]

ConstTypes == {"Unit", "Integer", "String"}

\* <ConstValue as FromValue>::from_value.
ConstValue_from_value(v) ==
    IF v.t \in ConstTypes
    THEN [ok |-> TRUE, c |-> [const |-> v.t, n |-> v.n], error |-> ""]
    ELSE [ok |-> FALSE, c |-> [const |-> "Unit", n |-> 0],
          error |-> "expected a constant value"]

constant_converts_first(tab, name, value) ==
    LET v == to_value(value)
        c == ConstValue_from_value(v.v)
    IN  IF ~v.ok
        THEN [tab |-> tab, res |-> ValueError(v.error)]
        ELSE IF ~c.ok
        THEN [tab |-> tab, res |-> ValueError(c.error)]
        ELSE IF ContainsKey(tab, name)
        THEN [tab |-> tab, res |-> ConflictingConstantName(name)]
        ELSE [tab |-> Insert(tab, name, c.c), res |-> Ok]

constant_defers_conversion(tab, name, value) ==
    IF ContainsKey(tab, name)
    THEN [tab |-> tab, res |-> ConflictingConstantName(name)]
    ELSE [tab |-> Insert(tab, name, [const |-> value.h, n |-> value.n]),
          res |-> Ok]

\* Module::constant.
constant(tab, name, value) ==
    IF ContainsKey(tab, name)
    THEN [tab |-> tab, res |-> ConflictingConstantName(name)]
    ELSE LET v == to_value(value)
         IN  IF ~v.ok
             THEN [tab |-> tab, res |-> ValueError(v.error)]
             ELSE LET constant_value == ConstValue_from_value(v.v)
                  IN  IF ~constant_value.ok
                      THEN [tab |-> tab,
                            res |-> ValueError(constant_value.error)]
                      ELSE [tab |-> Insert(tab, name, constant_value.c),
                            res |-> Ok]

UnitAlreadyPresent == [kind |-> "UnitAlreadyPresent"]

NoUnitType == [some |-> FALSE, name |-> ""]

ModuleUnitType(name) == [some |-> TRUE, name |-> name]

unit_replaces(ut, name) ==
    [unit_type |-> ModuleUnitType(name),
     res |-> IF ut.some THEN UnitAlreadyPresent ELSE Ok]

\* Module::unit.
unit(ut, name) ==
    IF ut.some
    THEN [unit_type |-> ut, res |-> UnitAlreadyPresent]
    ELSE [unit_type |-> ModuleUnitType(name), res |-> Ok]

TypeCheck(enum, tag) == [enum |-> enum, tag |-> tag]

StaticTypeHash(enum) == [of |-> "static", id |-> enum]

\* ModuleInternalEnum::new.
ModuleInternalEnum_new(name, base_type, static_type) ==
    [name |-> name, base_type |-> base_type, static_type |-> static_type,
     variants |-> <<>>]

\* ModuleInternalEnum::variant: the constructor is stored behind
\* Function::fn_call with the arity Function::args gives.
variant(enum_, name, type_check, constructor) ==
    [enum_ EXCEPT !.variants =
        Append(@, [name |-> name,
                   type_check |-> type_check,
                   args |-> FunctionArgs(constructor),
                   constructor |-> Handler("Function", constructor),
                   type_hash |-> StaticTypeHash(enum_.name)])]

option_swaps_constructors(enums, name) ==
    LET e0 == ModuleInternalEnum_new("Option", name, "OPTION_TYPE")
        e1 == variant(e0, "Some", TypeCheck("Option", 0), "Option::None")
        e2 == variant(e1, "None", TypeCheck("Option", 1), "Option::Some")
    IN  [enums |-> Append(enums, e2), res |-> Ok]

\* Module::option.
option(enums, name) ==
    LET e0 == ModuleInternalEnum_new("Option", name, "OPTION_TYPE")
        e1 == variant(e0, "Some", TypeCheck("Option", 0), "Option::Some")
        e2 == variant(e1, "None", TypeCheck("Option", 1), "Option::None")
    IN  [enums |-> Append(enums, e2), res |-> Ok]

result_skips_duplicate(enums, name) ==
    LET e0 == ModuleInternalEnum_new("Result", name, "RESULT_TYPE")
        e1 == variant(e0, "Ok", TypeCheck("Result", 0), "Result::Ok")
        e2 == variant(e1, "Err", TypeCheck("Result", 1), "Result::Err")
    IN  IF \E i \in 1 .. Len(enums) : enums[i] = e2
        THEN [enums |-> enums, res |-> Ok]
        ELSE [enums |-> Append(enums, e2), res |-> Ok]

\* Module::result.
result_(enums, name) ==
    LET e0 == ModuleInternalEnum_new("Result", name, "RESULT_TYPE")
        e1 == variant(e0, "Ok", TypeCheck("Result", 0), "Result::Ok")
        e2 == variant(e1, "Err", TypeCheck("Result", 1), "Result::Err")
    IN  [enums |-> Append(enums, e2), res |-> Ok]

\* Module::generator_state.
generator_state(enums, name) ==
    LET e0 == ModuleInternalEnum_new("GeneratorState", name,
                                     "GENERATOR_STATE_TYPE")
        e1 == variant(e0, "Complete", TypeCheck("GeneratorState", 0),
                      "GeneratorState::Complete")
        e2 == variant(e1, "Yielded", TypeCheck("GeneratorState", 1),
                      "GeneratorState::Yielded")
    IN  [enums |-> Append(enums, e2), res |-> Ok]

(***************************************************************************)
(* Dynamic values and the shared-ownership containers behind Value::Any.   *)
(***************************************************************************)
\* n is the integer of an Integer and the identity of a Future; c names the
\* container of an Any.
VInt(n) == [t |-> "Integer", n |-> n, c |-> ""]

VUnit == [t |-> "Unit", n |-> 0, c |-> ""]

VAny(c) == [t |-> "Any", n |-> 0, c |-> c]

VFuture(id) == [t |-> "Future", n |-> id, c |-> ""]

\* A value of one of the internal enums: t is the enum, c the variant and p
\* the values the variant wraps.
VVariant(enum, name, payload) ==
    [t |-> enum, n |-> 0, c |-> name, p |-> payload]

Containers == {"c1", "c2"}

ContainerType(c) == "Counter"

\* Borrow state of one container: outstanding shared and exclusive borrows.
Free == [shared |-> 0, exclusive |-> 0]

NoGuard == [c |-> "", mode |-> "none"]

Guard(c, mode) == [c |-> c, mode |-> mode]

\* borrow_shared: refused while an exclusive borrow is outstanding.
borrow_shared(a) ==
    IF a.exclusive > 0
    THEN [ok |-> FALSE, a |-> a]
    ELSE [ok |-> TRUE, a |-> [a EXCEPT !.shared = @ + 1]]

borrow_exclusive_ignores_shared(a) ==
    IF a.exclusive > 0
    THEN [ok |-> FALSE, a |-> a]
    ELSE [ok |-> TRUE, a |-> [a EXCEPT !.exclusive = 1]]

\* borrow_exclusive: refused while any borrow is outstanding.
borrow_exclusive(a) ==
    IF a.exclusive > 0 \/ a.shared > 0
    THEN [ok |-> FALSE, a |-> a]
    ELSE [ok |-> TRUE, a |-> [a EXCEPT !.exclusive = 1]]

\* Dropping a guard gives its borrow back.
release(a, mode) ==
    IF mode = "shared"
    THEN [a EXCEPT !.shared = @ - 1]
    ELSE [a EXCEPT !.exclusive = @ - 1]

ReleaseGuard(acc, g) == [acc EXCEPT ![g.c] = release(@, g.mode)]

RECURSIVE DropGuards(_, _)
DropGuards(acc, guards) ==
    IF guards = <<>>
    THEN acc
    ELSE DropGuards(ReleaseGuard(acc, guards[Len(guards)]),
                    SubSeq(guards, 1, Len(guards) - 1))

(***************************************************************************)
(* UnsafeFromValue::from_value: the coerced output and the guard that      *)
(* keeps it valid.  Value-typed parameters carry no guard.                 *)
(***************************************************************************)
from_value(p, v, acc) ==
    CASE p.k = "Int" ->
            IF v.t = "Integer"
            THEN [ok |-> TRUE, out |-> v, guard |-> NoGuard, acc |-> acc]
            ELSE [ok |-> FALSE, out |-> VUnit, guard |-> NoGuard, acc |-> acc]
      [] p.k = "Value" ->
            [ok |-> TRUE, out |-> v, guard |-> NoGuard, acc |-> acc]
      [] p.k = "Ref" ->
            IF v.t = "Any" /\ ContainerType(v.c) = p.ty
            THEN LET b == borrow_shared(acc[v.c])
                 IN  IF b.ok
                     THEN [ok |-> TRUE, out |-> v,
                           guard |-> Guard(v.c, "shared"),
                           acc |-> [acc EXCEPT ![v.c] = b.a]]
                     ELSE [ok |-> FALSE, out |-> VUnit, guard |-> NoGuard,
                           acc |-> acc]
            ELSE [ok |-> FALSE, out |-> VUnit, guard |-> NoGuard, acc |-> acc]
      [] p.k = "Mut" ->
            IF v.t = "Any" /\ ContainerType(v.c) = p.ty
            THEN LET b == borrow_exclusive(acc[v.c])
                 IN  IF b.ok
                     THEN [ok |-> TRUE, out |-> v,
                           guard |-> Guard(v.c, "exclusive"),
                           acc |-> [acc EXCEPT ![v.c] = b.a]]
                     ELSE [ok |-> FALSE, out |-> VUnit, guard |-> NoGuard,
                           acc |-> acc]
            ELSE [ok |-> FALSE, out |-> VUnit, guard |-> NoGuard, acc |-> acc]

(***************************************************************************)
(* VmError kinds a handler returns.                                        *)
(***************************************************************************)
BadArgumentCount(actual, expected) ==
    [kind |-> "BadArgumentCount", actual |-> actual, expected |-> expected]

BadArgument(arg) == [kind |-> "BadArgument", arg |-> arg]

StackError == [kind |-> "StackError"]

NativeError == [kind |-> "NativeError"]

\* Stack::drain_stack_top: the top count values, deepest first.
CanDrain(stk, count) == Len(stk) >= count

Drained(stk, count) == SubSeq(stk, Len(stk) - count + 1, Len(stk))

Remaining(stk, count) == SubSeq(stk, 1, Len(stk) - count)

(***************************************************************************)
(* The bodies of the native functions: the value they return (ok = FALSE   *)
(* when a fallible function returns its own error) and what they do to     *)
(* the Counter they were handed.                                           *)
(***************************************************************************)
NativeCall(f, outs, flds) ==
    CASE f = "add_ten" ->
            [ok |-> TRUE, v |-> VInt(outs[1].n + 10), fields |-> flds]
      [] f = "increment" ->
            [ok |-> TRUE, v |-> VUnit,
             fields |-> [flds EXCEPT ![outs[1].c] = @ + outs[2].n]]
      [] f = "value" ->
            [ok |-> TRUE, v |-> VInt(flds[outs[1].c]), fields |-> flds]
      [] f = "merge" ->
            IF flds[outs[2].c] = 0
            THEN [ok |-> FALSE, v |-> VUnit, fields |-> flds]
            ELSE [ok |-> TRUE, v |-> VUnit,
                  fields |-> [flds EXCEPT ![outs[1].c] = @ + flds[outs[2].c]]]
      [] f = "Option::Some" ->
            [ok |-> TRUE, v |-> VVariant("Option", "Some", <<outs[1]>>),
             fields |-> flds]
      [] f = "Option::None" ->
            [ok |-> TRUE, v |-> VVariant("Option", "None", <<>>),
             fields |-> flds]
      [] f = "Result::Ok" ->
            [ok |-> TRUE, v |-> VVariant("Result", "Ok", <<outs[1]>>),
             fields |-> flds]
      [] f = "Result::Err" ->
            [ok |-> TRUE, v |-> VVariant("Result", "Err", <<outs[1]>>),
             fields |-> flds]
      [] f = "GeneratorState::Complete" ->
            [ok |-> TRUE,
             v |-> VVariant("GeneratorState", "Complete", <<outs[1]>>),
             fields |-> flds]
      [] f = "GeneratorState::Yielded" ->
            [ok |-> TRUE,
             v |-> VVariant("GeneratorState", "Yielded", <<outs[1]>>),
             fields |-> flds]
      [] OTHER ->
            [ok |-> TRUE, v |-> VUnit, fields |-> flds]

(***************************************************************************)
(* impl_register!: the calling convention.                                 *)
(***************************************************************************)
\* $num of the i-th listed parameter when $count parameters are listed: the
\* macro takes $count from the head of the list and recurses on the tail,
\* so the numbers count down to 1.
Num(count, i) == count - i + 1

\* @unsafe-vars: arg of BadArgument for the i-th parameter.
UnsafeVarsArg(count, i) == count - Num(count, i)

\* @unsafe-inst-vars: arg of BadArgument for the receiver, and for the i-th
\* parameter after it.
UnsafeInstVarsReceiverArg == 0

UnsafeInstVarsArg_as_free(count, i) == count - Num(count, i)

UnsafeInstVarsArg(count, i) == 1 + count - Num(count, i)

CheckArgsFails_only_too_few(expected, actual) == actual < expected

\* @check-args: the call is refused unless the counts are equal.
CheckArgsFails(expected, actual) == actual # expected

\* What a return from inside the unsafe block does to the guards bound so
\* far: every one is dropped.
ScopeExit(acc, guards) ==
    [acc |-> DropGuards(acc, guards), released |-> Len(guards)]

RECURSIVE UnsafeVars_reversed(_, _, _, _, _, _)
UnsafeVars_reversed(i, params, vals, acc, outs, guards) ==
    IF i > Len(params)
    THEN [ok |-> TRUE, failed |-> 0, acc |-> acc, outs |-> outs,
          guards |-> guards]
    ELSE LET r == from_value(params[i], vals[Len(vals) - i + 1], acc)
         IN  IF ~r.ok
             THEN [ok |-> FALSE, failed |-> i, acc |-> acc, outs |-> outs,
                   guards |-> guards]
             ELSE UnsafeVars_reversed(i + 1, params, vals, r.acc,
                      Append(outs, r.out),
                      IF r.guard.mode = "none" THEN guards
                      ELSE Append(guards, r.guard))

\* The `let $var = match <$ty>::from_value($var)` bindings from the i-th on,
\* in order, stopping at the first Err.
RECURSIVE UnsafeVars(_, _, _, _, _, _)
UnsafeVars(i, params, vals, acc, outs, guards) ==
    IF i > Len(params)
    THEN [ok |-> TRUE, failed |-> 0, acc |-> acc, outs |-> outs,
          guards |-> guards]
    ELSE LET r == from_value(params[i], vals[i], acc)
         IN  IF ~r.ok
             THEN [ok |-> FALSE, failed |-> i, acc |-> acc, outs |-> outs,
                   guards |-> guards]
             ELSE UnsafeVars(i + 1, params, vals, r.acc, Append(outs, r.out),
                      IF r.guard.mode = "none" THEN guards
                      ELSE Append(guards, r.guard))

NoFuture == [f |-> "", outs |-> <<>>, guards |-> <<>>, state |-> "none"]

OkCall == [kind |-> "Ok"]

\* A handler's outcome: the stack, the borrow states and the fields after
\* it, what it returned, whether the native function ran, how many guards it
\* acquired and released, and the future it built (asynchronous handlers).
Outcome(stk, acc, flds, res, invoked, acquired, released, fut) ==
    [stack |-> stk, access |-> acc, fields |-> flds, res |-> res,
     invoked |-> invoked, acquired |-> acquired, released |-> released,
     fut |-> fut]

\* @check-args failed, or drain_stack_top did: nothing was touched.
Untouched(stk, acc, flds, res) ==
    Outcome(stk, acc, flds, res, FALSE, 0, 0, NoFuture)

CoercionFailed_leaks(rest, c, flds, arg) ==
    Outcome(rest, c.acc, flds, BadArgument(arg), FALSE, Len(c.guards), 0,
            NoFuture)

CoercionFailed_pushes_unit(rest, c, flds, arg) ==
    LET x == ScopeExit(c.acc, c.guards)
    IN  Outcome(Append(rest, VUnit), x.acc, flds, BadArgument(arg), FALSE,
                Len(c.guards), x.released, NoFuture)

\* A coercion failed: the values are gone from the stack, the guards bound
\* before the failing parameter are dropped by the return.
CoercionFailed(rest, c, flds, arg) ==
    LET x == ScopeExit(c.acc, c.guards)
    IN  Outcome(rest, x.acc, flds, BadArgument(arg), FALSE,
                Len(c.guards), x.released, NoFuture)

CallAndReturn_no_push(f, rest, c, flds) ==
    LET n == NativeCall(f, c.outs, flds)
        x == ScopeExit(c.acc, c.guards)
    IN  Outcome(rest, x.acc, n.fields, IF n.ok THEN OkCall ELSE NativeError,
                TRUE, Len(c.guards), x.released, NoFuture)

CallAndReturn_on_copy(f, rest, c, flds) ==
    LET n == NativeCall(f, c.outs, flds)
        x == ScopeExit(c.acc, c.guards)
    IN  IF n.ok
        THEN Outcome(Append(rest, n.v), x.acc, flds, OkCall, TRUE,
                     Len(c.guards), x.released, NoFuture)
        ELSE Outcome(rest, x.acc, flds, NativeError, TRUE,
                     Len(c.guards), x.released, NoFuture)

CallAndReturn_swallows_error(f, rest, c, flds) ==
    LET n == NativeCall(f, c.outs, flds)
        x == ScopeExit(c.acc, c.guards)
    IN  Outcome(Append(rest, IF n.ok THEN n.v ELSE VUnit), x.acc, n.fields,
                OkCall, TRUE, Len(c.guards), x.released, NoFuture)

\* The synchronous call and @return: the native function runs inside the
\* unsafe block, the block's end drops the guards, then the return value is
\* converted and pushed.
CallAndReturn(f, rest, c, flds) ==
    LET n == NativeCall(f, c.outs, flds)
        x == ScopeExit(c.acc, c.guards)
    IN  IF n.ok
        THEN Outcome(Append(rest, n.v), x.acc, n.fields, OkCall, TRUE,
                     Len(c.guards), x.released, NoFuture)
        ELSE Outcome(rest, x.acc, n.fields, NativeError, TRUE,
                     Len(c.guards), x.released, NoFuture)

FutureAndReturn_runs_eagerly(f, id, rest, c, flds) ==
    Outcome(Append(rest, VFuture(id)), c.acc,
            NativeCall(f, c.outs, flds).fields, OkCall, TRUE,
            Len(c.guards), 0,
            [f |-> f, outs |-> c.outs, guards |-> c.guards,
             state |-> "created"])

\* The asynchronous call and @return: the async block takes the bound
\* variables, guards included, and the future is pushed.
FutureAndReturn(f, id, rest, c, flds) ==
    Outcome(Append(rest, VFuture(id)), c.acc, flds, OkCall, FALSE,
            Len(c.guards), 0,
            [f |-> f, outs |-> c.outs, guards |-> c.guards,
             state |-> "created"])

UnsafeInstVars_keeps_going(params, vals, acc) ==
    LET r == from_value(params[1], vals[1], acc)
        rest == UnsafeVars(2, params, vals, r.acc,
                    IF r.ok THEN <<r.out>> ELSE <<>>,
                    IF r.guard.mode = "none" THEN <<>> ELSE <<r.guard>>)
    IN  IF ~r.ok
        THEN [ok |-> FALSE, failed |-> 1, acc |-> rest.acc,
              outs |-> rest.outs, guards |-> rest.guards]
        ELSE rest

\* The receiver binding of @unsafe-inst-vars followed by the others.
UnsafeInstVars(params, vals, acc) ==
    LET r == from_value(params[1], vals[1], acc)
    IN  IF ~r.ok
        THEN [ok |-> FALSE, failed |-> 1, acc |-> acc, outs |-> <<>>,
              guards |-> <<>>]
        ELSE UnsafeVars(2, params, vals, r.acc, <<r.out>>,
                 IF r.guard.mode = "none" THEN <<>> ELSE <<r.guard>>)

\* Function::fn_call.
Function_fn_call(f, stk, acc, flds, args) ==
    LET count == Count(f)
    IN  IF CheckArgsFails(count, args)
        THEN Untouched(stk, acc, flds, BadArgumentCount(args, count))
        ELSE IF ~CanDrain(stk, count)
        THEN Untouched(stk, acc, flds, StackError)
        ELSE LET rest == Remaining(stk, count)
                 c == UnsafeVars(1, Params(f), Drained(stk, count), acc,
                                 <<>>, <<>>)
             IN  IF ~c.ok
                 THEN CoercionFailed(rest, c, flds,
                                     UnsafeVarsArg(count, c.failed))
                 ELSE CallAndReturn(f, rest, c, flds)

\* AsyncFunction::fn_call.
AsyncFunction_fn_call(f, id, stk, acc, flds, args) ==
    LET count == Count(f)
    IN  IF CheckArgsFails(count, args)
        THEN Untouched(stk, acc, flds, BadArgumentCount(args, count))
        ELSE IF ~CanDrain(stk, count)
        THEN Untouched(stk, acc, flds, StackError)
        ELSE LET rest == Remaining(stk, count)
                 c == UnsafeVars(1, Params(f), Drained(stk, count), acc,
                                 <<>>, <<>>)
             IN  IF ~c.ok
                 THEN CoercionFailed(rest, c, flds,
                                     UnsafeVarsArg(count, c.failed))
                 ELSE FutureAndReturn(f, id, rest, c, flds)

\* InstFn::fn_call.
InstFn_fn_call(f, stk, acc, flds, args) ==
    LET count == InstCount(f)
    IN  IF CheckArgsFails(count + 1, args)
        THEN Untouched(stk, acc, flds, BadArgumentCount(args, count + 1))
        ELSE IF ~CanDrain(stk, count + 1)
        THEN Untouched(stk, acc, flds, StackError)
        ELSE LET rest == Remaining(stk, count + 1)
                 c == UnsafeInstVars(Params(f), Drained(stk, count + 1), acc)
             IN  IF ~c.ok
                 THEN CoercionFailed(rest, c, flds,
                          IF c.failed = 1 THEN UnsafeInstVarsReceiverArg
                          ELSE UnsafeInstVarsArg(count, c.failed - 1))
                 ELSE CallAndReturn(f, rest, c, flds)

\* AsyncInstFn::fn_call.
AsyncInstFn_fn_call(f, id, stk, acc, flds, args) ==
    LET count == InstCount(f)
    IN  IF CheckArgsFails(count + 1, args)
        THEN Untouched(stk, acc, flds, BadArgumentCount(args, count + 1))
        ELSE IF ~CanDrain(stk, count + 1)
        THEN Untouched(stk, acc, flds, StackError)
        ELSE LET rest == Remaining(stk, count + 1)
                 c == UnsafeInstVars(Params(f), Drained(stk, count + 1), acc)
             IN  IF ~c.ok
                 THEN CoercionFailed(rest, c, flds,
                          IF c.failed = 1 THEN UnsafeInstVarsReceiverArg
                          ELSE UnsafeInstVarsArg(count, c.failed - 1))
                 ELSE FutureAndReturn(f, id, rest, c, flds)

\* The raw handler raw_count does its own accounting: it takes whatever
\* count it is given off the stack and pushes that count.
raw_count(stk, acc, flds, args) ==
    IF ~CanDrain(stk, args)
    THEN Untouched(stk, acc, flds, StackError)
    ELSE Outcome(Append(Remaining(stk, args), VInt(args)), acc, flds, OkCall,
                 TRUE, 0, 0, NoFuture)

\* The Arc<Handler> closure each registration stores.
HandlerCall(h, id, stk, acc, flds, args) ==
    CASE h.shape = "Function"      -> Function_fn_call(h.f, stk, acc, flds, args)
      [] h.shape = "AsyncFunction" -> AsyncFunction_fn_call(h.f, id, stk, acc, flds, args)
      [] h.shape = "InstFn"        -> InstFn_fn_call(h.f, stk, acc, flds, args)
      [] h.shape = "AsyncInstFn"   -> AsyncInstFn_fn_call(h.f, id, stk, acc, flds, args)
      [] h.shape = "Raw"           -> raw_count(stk, acc, flds, args)

(***************************************************************************)
(* The std::vec module's index-get functions (modules/vec.rs).             *)
(***************************************************************************)
MaxVecLen == 2
MaxReaders == 1

\* A range value: start and end are optional, <<>> when absent.
VRange(start, end, limits) ==
    [t |-> "Range", start |-> start, end |-> end, limits |-> limits]

\* The dynamic value of a Slice over elements [lo, hi) of the Vec.
VSlice(lo, hi) == [t |-> "Slice", n |-> 0, c |-> "", lo |-> lo, hi |-> hi]

OkValue(v) == [kind |-> "Ok", v |-> v]

ValueToIntegerCoercionError(from, to) ==
    [kind |-> "ValueToIntegerCoercionError", from |-> from, to |-> to]

UnsupportedIndexGet(target, index) ==
    [kind |-> "UnsupportedIndexGet", target |-> target, index |-> index]

FromValueError == [kind |-> "FromValueError"]

\* An out-of-bounds slicing expression panics.
Panic == [kind |-> "Panic"]

StaticTypeInfo(name) == [kind |-> "StaticType", name |-> name]

\* Value::type_info of a key.
ValueTypeInfo(v) == StaticTypeInfo(v.t)

\* <[Value]>::get(idx).cloned().to_value(): an Option value.
GetCloned(elems, idx) ==
    IF idx < Len(elems)
    THEN VVariant("Option", "Some", <<elems[idx + 1]>>)
    ELSE VVariant("Option", "None", <<>>)

\* <usize>::from_value of an optional range bound.
UsizeOk(bound) == bound = <<>> \/ (bound[1].t = "Integer" /\ bound[1].n >= 0)

RangeOf_closed_as_half_open(start, end, limits, len) ==
    LET s == IF start = <<>> THEN 0 ELSE start[1].n
        e == IF end = <<>> THEN len ELSE end[1].n
    IN  IF s > e \/ e > len
        THEN [ok |-> FALSE, lo |-> 0, hi |-> 0]
        ELSE [ok |-> TRUE, lo |-> s, hi |-> e]

\* The match on (start, end, r.limits): the half-open index interval the
\* slicing expression covers, or a panic when it is out of bounds.
RangeOf(start, end, limits, len) ==
    LET s == IF start = <<>> THEN 0 ELSE start[1].n
        e == IF end = <<>> THEN len
             ELSE IF limits = "Closed" THEN end[1].n + 1 ELSE end[1].n
    IN  IF s > e \/ e > len
        THEN [ok |-> FALSE, lo |-> 0, hi |-> 0]
        ELSE [ok |-> TRUE, lo |-> s, hi |-> e]

\* vec_get on a Vec holding elems.
vec_get(elems, key) ==
    CASE key.t = "Integer" ->
            IF key.n < 0
            THEN ValueToIntegerCoercionError(key.n, "usize")
            ELSE OkValue(GetCloned(elems, key.n))
      [] key.t = "Range" ->
            IF ~UsizeOk(key.start) \/ ~UsizeOk(key.end)
            THEN FromValueError
            ELSE LET r == RangeOf(key.start, key.end, key.limits, Len(elems))
                 IN  IF r.ok THEN OkValue(VSlice(r.lo, r.hi)) ELSE Panic
      [] OTHER ->
            UnsupportedIndexGet(StaticTypeInfo("Vec"), ValueTypeInfo(key))

\* slice_get on a Slice holding elems, which start at offset base of the
\* Vec.
slice_get(elems, base, key) ==
    CASE key.t = "Integer" ->
            IF key.n < 0
            THEN ValueToIntegerCoercionError(key.n, "usize")
            ELSE OkValue(GetCloned(elems, key.n))
      [] key.t = "Range" ->
            IF ~UsizeOk(key.start) \/ ~UsizeOk(key.end)
            THEN FromValueError
            ELSE LET r == RangeOf(key.start, key.end, key.limits, Len(elems))
                 IN  IF r.ok
                     THEN OkValue(VSlice(base + r.lo, base + r.hi))
                     ELSE Panic
      [] OTHER ->
            UnsupportedIndexGet(TypeInfoOf("Slice"), ValueTypeInfo(key))

NoSlice == [some |-> FALSE, lo |-> 0, hi |-> 0]

OutOfRange(index, len) == [kind |-> "OutOfRange", index |-> index, len |-> len]

AccessError == [kind |-> "AccessError"]

\* Ref::upgrade: the holder of a shared borrow asks for exclusive access,
\* which it gets when no other borrow of the container is outstanding.
upgrade(a) ==
    IF a.shared = 1 /\ a.exclusive = 0
    THEN [ok |-> TRUE, a |-> [a EXCEPT !.exclusive = 1]]
    ELSE [ok |-> FALSE, a |-> a]

Slice_set_keeps_exclusive(elems, a, key, value) ==
    IF Len(elems) <= key
    THEN [elems |-> elems, a |-> a, res |-> OutOfRange(key, Len(elems))]
    ELSE LET u == upgrade(a)
         IN  IF ~u.ok
             THEN [elems |-> elems, a |-> a, res |-> AccessError]
             ELSE [elems |-> [elems EXCEPT ![key + 1] = value],
                   a |-> u.a, res |-> OkCall]

\* Slice::set on a Slice holding elems, whose shared borrow is one of those
\* counted in a.
Slice_set(elems, a, key, value) ==
    IF Len(elems) <= key
    THEN [elems |-> elems, a |-> a, res |-> OutOfRange(key, Len(elems))]
    ELSE LET u == upgrade(a)
         IN  IF ~u.ok
             THEN [elems |-> elems, a |-> a, res |-> AccessError]
             ELSE [elems |-> [elems EXCEPT ![key + 1] = value],
                   a |-> release(u.a, "exclusive"), res |-> OkCall]

NoGot == [op |-> "none", key |-> VUnit, len |-> 0, base |-> 0,
          res |-> [kind |-> "none"]]

(***************************************************************************)
(* The setup phase: the host calls registration operations on one Module.  *)
(***************************************************************************)
Items == {<<"math", "add_ten">>, <<"empty">>}

ItemPrefixes == {<<>>, <<"std", "vec">>}

SyncFreeFns == {"add_ten", "empty"}

AsyncFreeFns == {"async_empty"}

RawFns == {"raw_count"}

SyncInstFns == {"increment", "value", "len"}

AsyncInstFns == {"test"}

MemberNames == {StrName("value"), StrName("len"),
                HashName(ProtocolHash("INDEX_GET"))}

FieldNames == {StrName("value"), StrName("len")}

FieldProtocols == {"GET", "SET"}

FieldFns == {"value", "len"}

Registered(op, arg, r) ==
    /\ nops < MaxOps
    /\ nops' = nops + 1
    /\ result' = [op |-> op, arg |-> arg, res |-> r.res]
    /\ UNCHANGED <<item, stack, access, held, fields, futures, last, ncalls>>
    /\ UNCHANGED <<macros, constants, unit_type, internal_enums>>
    /\ UNCHANGED vecVars

RegFunctionOf(names, fns) ==
    \E name \in names, f \in fns :
        LET r == function(functions, name, f)
        IN  /\ functions' = r.tab
            /\ Registered("function", name, r)
            /\ UNCHANGED <<associated_functions, types>>

RegFunction == RegFunctionOf(Items, SyncFreeFns)

RegAsyncFunction ==
    \E name \in Items, f \in AsyncFreeFns :
        LET r == async_function(functions, name, f)
        IN  /\ functions' = r.tab
            /\ Registered("async_function", name, r)
            /\ UNCHANGED <<associated_functions, types>>

RegRawFn ==
    \E name \in Items, f \in RawFns :
        LET r == raw_fn(functions, name, f)
        IN  /\ functions' = r.tab
            /\ Registered("raw_fn", name, r)
            /\ UNCHANGED <<associated_functions, types>>

\* What a member registration was asked to register: the owning type of the
\* native function's receiver, the member's hash and the kind.
AssocKeyOf(name, f, kind) ==
    [type_hash |-> TypeHash(Params(f)[1].ty),
     hash |-> IF name.str THEN HashOf(name.s) ELSE name.h,
     kind |-> kind]

RegInstFnOf(names, fns) ==
    \E name \in names, f \in fns :
        LET r == inst_fn(associated_functions, name, f)
        IN  /\ associated_functions' = r.tab
            /\ Registered("inst_fn", AssocKeyOf(name, f, KindInstance), r)
            /\ UNCHANGED <<functions, types>>

RegInstFn == RegInstFnOf(MemberNames, SyncInstFns)

RegFieldFnOf(protocols, names, fns) ==
    \E protocol \in protocols, name \in names, f \in fns :
        LET r == field_fn(associated_functions, protocol, name, f)
        IN  /\ associated_functions' = r.tab
            /\ Registered("field_fn", AssocKeyOf(name, f, KindFieldFn(protocol)), r)
            /\ UNCHANGED <<functions, types>>

RegFieldFn == RegFieldFnOf(FieldProtocols, FieldNames, FieldFns)

RegAsyncInstFn ==
    \E name \in FieldNames, f \in AsyncInstFns :
        LET r == async_inst_fn(associated_functions, name, f)
        IN  /\ associated_functions' = r.tab
            /\ Registered("async_inst_fn", AssocKeyOf(name, f, KindInstance), r)
            /\ UNCHANGED <<functions, types>>

RegTyOf(Ts) ==
    \E T \in Ts :
        LET r == ty(types, associated_functions, T)
        IN  /\ types' = r.types
            /\ associated_functions' = r.tab
            /\ Registered("ty", T, r)
            /\ UNCHANGED functions

RegTy == RegTyOf(HostTypes)

NoHandler == [shape |-> "", f |-> ""]

NoLast == [op |-> "none", h |-> NoHandler, args |-> 0, c |-> "", res |-> OkCall,
           invoked |-> FALSE, acquired |-> 0, released |-> 0, state |-> "",
           vals |-> <<>>]

Init ==
    /\ item \in ItemPrefixes
    /\ functions = EmptyMap
    /\ associated_functions = EmptyMap
    /\ types = EmptyMap
    /\ result = [op |-> "new", arg |-> item, res |-> Ok]
    /\ nops = 0
    /\ stack = <<>>
    /\ access = [c \in Containers |-> Free]
    /\ held = [c \in Containers |-> Free]
    /\ fields = [c \in Containers |-> IF c = "c1" THEN 0 ELSE 1]
    /\ futures = EmptyMap
    /\ last = NoLast
    /\ ncalls = 0
    /\ macros = EmptyMap
    /\ constants = EmptyMap
    /\ unit_type = NoUnitType
    /\ internal_enums = <<>>
    /\ vec = <<>>
    /\ slice = NoSlice
    /\ got = NoGot
    /\ vec_access = Free

Next ==
    \/ RegFunction
    \/ RegAsyncFunction
    \/ RegRawFn
    \/ RegInstFn
    \/ RegFieldFn
    \/ RegAsyncInstFn
    \/ RegTy

Spec == Init /\ [][Next]_vars

(***************************************************************************)
(* The run phase: the interpreter pushes and pops values, invokes the      *)
(* handlers the registrations stored, polls or drops the futures they      *)
(* return, and other code borrows the same containers.                     *)
(***************************************************************************)
PushValues == {VInt(1), VAny("c1"), VAny("c2")}

CallHandlers ==
    {Handler("Function", f) : f \in SyncFreeFns}
    \cup {Handler("AsyncFunction", f) : f \in AsyncFreeFns}
    \cup {Handler("InstFn", f) : f \in {"increment", "value", "merge"}}
    \cup {Handler("AsyncInstFn", f) : f \in AsyncInstFns}
    \cup {Handler("Raw", f) : f \in RawFns}

ArgCounts == 0 .. MaxStack

\* The containers that code outside the calls borrows.
BorrowedOutside == {"c1"}

OnStack(v) == \E i \in 1 .. Len(stack) : stack[i] = v

FutureOnTop(n) ==
    \E i \in 1 .. Len(stack) :
        i > Len(stack) - n /\ stack[i].t = "Future"

PushFrom(values) ==
    \E v \in values :
        /\ Len(stack) < MaxStack
        /\ stack' = Append(stack, v)
        /\ last' = [NoLast EXCEPT !.op = "push"]
        /\ UNCHANGED <<access, held, fields, futures, ncalls>>
        /\ UNCHANGED <<regVars, vecVars>>

Push == PushFrom(PushValues)

\* The interpreter takes the future a call left on top of the stack.
TakeFuture ==
    /\ Len(stack) > 0
    /\ stack[Len(stack)].t = "Future"
    /\ stack' = SubSeq(stack, 1, Len(stack) - 1)
    /\ last' = [NoLast EXCEPT !.op = "take"]
    /\ UNCHANGED <<access, held, fields, futures, ncalls>>
    /\ UNCHANGED <<regVars, vecVars>>

\* The interpreter invokes a handler with an argument count.  The values a
\* call takes off the stack are plain values or containers, not futures.
Invoke(h, args, limit) ==
    LET id == ncalls + 1
        o == HandlerCall(h, id, stack, access, fields, args)
    IN  /\ ncalls < limit
        /\ ~FutureOnTop(args)
        /\ Len(o.stack) <= MaxStack
        /\ ncalls' = ncalls + 1
        /\ stack' = o.stack
        /\ access' = o.access
        /\ fields' = o.fields
        /\ futures' = IF o.fut.state = "none" THEN futures
                      ELSE Insert(futures, id, o.fut)
        /\ last' = [op |-> "call", h |-> h, args |-> args, c |-> "",
                    res |-> o.res, invoked |-> o.invoked,
                    acquired |-> o.acquired, released |-> o.released,
                    state |-> "",
                    vals |-> IF CanDrain(stack, args)
                             THEN Drained(stack, args) ELSE <<>>]
        /\ UNCHANGED held
        /\ UNCHANGED <<regVars, vecVars>>

Call ==
    \E h \in CallHandlers, args \in ArgCounts : Invoke(h, args, MaxCalls)

Remove(m, k) == [x \in DOMAIN m \ {k} |-> m[x]]

\* A poll that returns Pending: the future stays suspended with all it holds.
PollPending ==
    \E id \in DOMAIN futures :
        /\ ~OnStack(VFuture(id))
        /\ futures[id].state = "created"
        /\ futures' = [futures EXCEPT ![id].state = "suspended"]
        /\ last' = [NoLast EXCEPT !.op = "pending", !.args = id]
        /\ UNCHANGED <<stack, access, held, fields, ncalls>>
        /\ UNCHANGED <<regVars, vecVars>>

DropCaptured_keeps_guards(acc, fut) == [acc |-> acc, released |-> 0]

\* The async block goes away, finished or not: what it captured is dropped.
DropCaptured(acc, fut) == ScopeExit(acc, fut.guards)

\* A poll that returns Ready: the native function has run, its output is
\* converted, and the finished async block drops what it captured.
PollReady ==
    \E id \in DOMAIN futures :
        LET fut == futures[id]
            n == NativeCall(fut.f, fut.outs, fields)
            x == DropCaptured(access, fut)
        IN  /\ ~OnStack(VFuture(id))
            /\ futures' = Remove(futures, id)
            /\ fields' = n.fields
            /\ access' = x.acc
            /\ last' = [NoLast EXCEPT !.op = "ready", !.args = id,
                            !.res = IF n.ok THEN OkCall ELSE NativeError,
                            !.invoked = TRUE, !.released = x.released]
            /\ UNCHANGED <<stack, held, ncalls>>
            /\ UNCHANGED <<regVars, vecVars>>

\* The interpreter drops a future before it completed.
DropFuture ==
    \E id \in DOMAIN futures :
        LET x == DropCaptured(access, futures[id])
        IN  /\ ~OnStack(VFuture(id))
            /\ futures' = Remove(futures, id)
            /\ access' = x.acc
            /\ last' = [NoLast EXCEPT !.op = "drop", !.args = id,
                            !.released = x.released,
                            !.state = futures[id].state]
            /\ UNCHANGED <<stack, held, fields, ncalls>>
            /\ UNCHANGED <<regVars, vecVars>>

\* Other code borrows a container and keeps the guard.
BorrowShared ==
    \E c \in BorrowedOutside :
        LET b == borrow_shared(access[c])
        IN  /\ held[c].shared < MaxShared
            /\ access' = [access EXCEPT ![c] = b.a]
            /\ held' = IF b.ok THEN [held EXCEPT ![c].shared = @ + 1] ELSE held
            /\ last' = [NoLast EXCEPT !.op = "borrow_shared", !.c = c,
                            !.res = IF b.ok THEN OkCall
                                    ELSE [kind |-> "AccessError"]]
            /\ UNCHANGED <<stack, fields, futures, ncalls>>
            /\ UNCHANGED <<regVars, vecVars>>

BorrowExclusive ==
    \E c \in BorrowedOutside :
        LET b == borrow_exclusive(access[c])
        IN  /\ access' = [access EXCEPT ![c] = b.a]
            /\ held' = IF b.ok THEN [held EXCEPT ![c].exclusive = @ + 1] ELSE held
            /\ last' = [NoLast EXCEPT !.op = "borrow_exclusive", !.c = c,
                            !.res = IF b.ok THEN OkCall
                                    ELSE [kind |-> "AccessError"]]
            /\ UNCHANGED <<stack, fields, futures, ncalls>>
            /\ UNCHANGED <<regVars, vecVars>>

\* A guard held by other code is dropped.
Release ==
    \E c \in BorrowedOutside, mode \in {"shared", "exclusive"} :
        /\ held[c][mode] > 0
        /\ access' = ReleaseGuard(access, Guard(c, mode))
        /\ held' = [held EXCEPT ![c][mode] = @ - 1]
        /\ last' = [NoLast EXCEPT !.op = "release", !.c = c]
        /\ UNCHANGED <<stack, fields, futures, ncalls>>
        /\ UNCHANGED <<regVars, vecVars>>

InitCall == Init /\ item = <<>>

NextCall ==
    \/ Push
    \/ TakeFuture
    \/ Call
    \/ PollPending
    \/ PollReady
    \/ DropFuture
    \/ BorrowShared
    \/ BorrowExclusive
    \/ Release

SpecCall == InitCall /\ [][NextCall]_vars

(***************************************************************************)
(* The Counter scenario: a Module on which ty::<Counter>() (whose hook      *)
(* installs the GET hook of the field `value`) and                         *)
(* inst_fn("increment", Counter::increment) have been called; the          *)
(* interpreter pushes values and invokes the registered members.           *)
(***************************************************************************)
MaxMemberCalls == 2

CounterModule ==
    LET t == ty(EmptyMap, EmptyMap, "Counter")
        m == inst_fn(t.tab, StrName("increment"), "increment")
    IN  [types |-> t.types, tab |-> m.tab]

CallMember ==
    \E key \in DOMAIN associated_functions, args \in ArgCounts :
        Invoke(associated_functions[key].handler, args, MaxMemberCalls)

InitCounter ==
    /\ item = <<>>
    /\ functions = EmptyMap
    /\ associated_functions = CounterModule.tab
    /\ types = CounterModule.types
    /\ result = [op |-> "inst_fn", arg |-> <<>>, res |-> Ok]
    /\ nops = 2
    /\ stack = <<>>
    /\ access = [c \in Containers |-> Free]
    /\ held = [c \in Containers |-> Free]
    /\ fields = [c \in Containers |-> IF c = "c1" THEN 0 ELSE 1]
    /\ futures = EmptyMap
    /\ last = NoLast
    /\ ncalls = 0
    /\ macros = EmptyMap
    /\ constants = EmptyMap
    /\ unit_type = NoUnitType
    /\ internal_enums = <<>>
    /\ vec = <<>>
    /\ slice = NoSlice
    /\ got = NoGot
    /\ vec_access = Free

NextCounter ==
    \/ Push
    \/ CallMember

SpecCounter == InitCounter /\ [][NextCounter]_vars

(***************************************************************************)
(* Registration of macros, constants, the unit type and internal enums.    *)
(***************************************************************************)
MacroFns == {"stringy_math", "passthrough"}

ConstNames == {<<"TEN">>, <<"MyType", "TEN">>, <<"empty">>}

HostValues == {HInt(10), HString, HFailing, HCounter}

UnitNames == {"unit", "nil"}

EnumPaths == {<<"nonstd", "Enum">>}

MaxEnums == 2

RegisteredData(op, arg, r) ==
    /\ nops < MaxOps
    /\ nops' = nops + 1
    /\ result' = [op |-> op, arg |-> arg, res |-> r.res]
    /\ UNCHANGED <<item, functions, associated_functions, types>>
    /\ UNCHANGED callVars
    /\ UNCHANGED vecVars

RegMacro ==
    \E name \in Items, f \in MacroFns :
        LET r == macro_(macros, name, f)
        IN  /\ macros' = r.tab
            /\ RegisteredData("macro_", name, r)
            /\ UNCHANGED <<constants, unit_type, internal_enums>>

RegConstantOf(names, values) ==
    \E name \in names, value \in values :
        LET r == constant(constants, name, value)
        IN  /\ constants' = r.tab
            /\ RegisteredData("constant", [name |-> name, value |-> value], r)
            /\ UNCHANGED <<macros, unit_type, internal_enums>>

RegConstant == RegConstantOf(ConstNames, HostValues)

RegUnit ==
    \E name \in UnitNames :
        LET r == unit(unit_type, name)
        IN  /\ unit_type' = r.unit_type
            /\ RegisteredData("unit", name, r)
            /\ UNCHANGED <<macros, constants, internal_enums>>

RegOption ==
    \E name \in EnumPaths :
        LET r == option(internal_enums, name)
        IN  /\ Len(internal_enums) < MaxEnums
            /\ internal_enums' = r.enums
            /\ RegisteredData("option", name, r)
            /\ UNCHANGED <<macros, constants, unit_type>>

RegResult ==
    \E name \in EnumPaths :
        LET r == result_(internal_enums, name)
        IN  /\ Len(internal_enums) < MaxEnums
            /\ internal_enums' = r.enums
            /\ RegisteredData("result", name, r)
            /\ UNCHANGED <<macros, constants, unit_type>>

RegGeneratorState ==
    \E name \in EnumPaths :
        LET r == generator_state(internal_enums, name)
        IN  /\ Len(internal_enums) < MaxEnums
            /\ internal_enums' = r.enums
            /\ RegisteredData("generator_state", name, r)
            /\ UNCHANGED <<macros, constants, unit_type>>

NextData ==
    \/ RegFunction
    \/ RegMacro
    \/ RegConstant
    \/ RegUnit
    \/ RegOption
    \/ RegResult
    \/ RegGeneratorState

SpecData == Init /\ [][NextData]_vars

(***************************************************************************)
(* Registration of deriving types next to hand-written registrations of    *)
(* the members their hooks install.                                        *)
(***************************************************************************)
DerivedTypes == {"Counter", "Gauge"}

GaugeFieldNames == {StrName("level"), StrName("limit")}

GaugeFieldFns == {"get_level", "set_level", "get_limit"}

RegDerivedTy == RegTyOf(DerivedTypes)

RegGaugeFieldFn == RegFieldFnOf(FieldProtocols, GaugeFieldNames, GaugeFieldFns)

RegGaugeInstFn == RegInstFnOf({StrName("reset")}, {"reset"})

NextDerive ==
    \/ RegDerivedTy
    \/ RegGaugeFieldFn
    \/ RegGaugeInstFn

SpecDerive == Init /\ [][NextDerive]_vars

(***************************************************************************)
(* The internal enums at run time: the enums are registered and the        *)
(* interpreter invokes the constructors the registrations stored.          *)
(***************************************************************************)
\* The values the interpreter hands to a constructor.
ConstructorArgs == {VInt(1), VUnit}

PushArg == PushFrom(ConstructorArgs)

CallConstructor ==
    \E i \in 1 .. Len(internal_enums), j \in 1 .. 2, args \in ArgCounts :
        Invoke(internal_enums[i].variants[j].constructor, args, MaxCalls)

NextEnum ==
    \/ RegOption
    \/ RegResult
    \/ RegGeneratorState
    \/ PushArg
    \/ CallConstructor

SpecEnum == InitCall /\ [][NextEnum]_vars

(***************************************************************************)
(* Index-gets on one Vec of the std::vec module and on the Slice a range   *)
(* get returns.                                                            *)
(***************************************************************************)
VecElems == {VInt(1), VInt(2)}

KeyInts == (0 - 1) .. (MaxVecLen + 1)

RangeBounds == {<<>>} \cup {<<VInt(n)>> : n \in KeyInts}

Keys ==
    {VInt(n) : n \in KeyInts}
    \cup {VUnit}
    \cup {VRange(s, e, l) : s \in RangeBounds, e \in RangeBounds,
                            l \in {"HalfOpen", "Closed"}}

\* Vec::push; a Vec that a Slice borrows cannot be borrowed mutably.
VecPush ==
    \E v \in VecElems :
        /\ Len(vec) < MaxVecLen
        /\ ~slice.some
        /\ borrow_exclusive(vec_access).ok
        /\ vec' = Append(vec, v)
        /\ got' = NoGot
        /\ UNCHANGED <<slice, vec_access>>
        /\ UNCHANGED <<regVars, callVars>>

\* The Slice a successful range get returned is the one kept.  got records
\* the call: the key, the length of the sequence indexed, the offset of
\* that sequence in the Vec, and what the call returned.
Got(op, key, len, base, r) ==
    /\ got' = [op |-> op, key |-> key, len |-> len, base |-> base, res |-> r]
    /\ slice' = IF r.kind = "Ok" /\ r.v.t = "Slice"
                THEN [some |-> TRUE, lo |-> r.v.lo, hi |-> r.v.hi]
                ELSE slice
    /\ vec_access' = IF r.kind = "Ok" /\ r.v.t = "Slice" /\ ~slice.some
                     THEN borrow_shared(vec_access).a
                     ELSE vec_access
    /\ UNCHANGED vec
    /\ UNCHANGED <<regVars, callVars>>

VecGet ==
    \E key \in Keys : Got("vec_get", key, Len(vec), 0, vec_get(vec, key))

SliceElems == SubSeq(vec, slice.lo + 1, slice.hi)

SliceGet ==
    \E key \in Keys :
        /\ slice.some
        /\ Got("slice_get", key, Len(SliceElems), slice.lo,
               slice_get(SliceElems, slice.lo, key))

SliceDrop ==
    /\ slice.some
    /\ slice' = NoSlice
    /\ vec_access' = release(vec_access, "shared")
    /\ UNCHANGED <<vec, got>>
    /\ UNCHANGED <<regVars, callVars>>

\* The shared borrows of the Vec that other code holds.
Readers == vec_access.shared - (IF slice.some THEN 1 ELSE 0)

\* Other code borrows the Vec and keeps the guard.
VecBorrow ==
    /\ Readers < MaxReaders
    /\ borrow_shared(vec_access).ok
    /\ vec_access' = borrow_shared(vec_access).a
    /\ UNCHANGED <<vec, slice, got>>
    /\ UNCHANGED <<regVars, callVars>>

VecRelease ==
    /\ Readers > 0
    /\ vec_access' = release(vec_access, "shared")
    /\ UNCHANGED <<vec, slice, got>>
    /\ UNCHANGED <<regVars, callVars>>

\* The elements of the Vec with those the Slice covers replaced.
Splice(elems) ==
    SubSeq(vec, 1, slice.lo) \o elems \o SubSeq(vec, slice.hi + 1, Len(vec))

\* Slice::set, called with a key that coerced to usize.
SliceSet ==
    \E key \in 0 .. MaxVecLen, value \in VecElems :
        LET r == Slice_set(SliceElems, vec_access, key, value)
        IN  /\ slice.some
            /\ vec' = Splice(r.elems)
            /\ vec_access' = r.a
            /\ got' = [op |-> "slice_set", key |-> VInt(key),
                       len |-> Len(SliceElems), base |-> slice.lo,
                       res |-> r.res, value |-> value]
            /\ UNCHANGED slice
            /\ UNCHANGED <<regVars, callVars>>

NextVec ==
    \/ VecPush
    \/ VecGet
    \/ SliceGet
    \/ SliceDrop
    \/ VecBorrow
    \/ VecRelease
    \/ SliceSet

SpecVec == InitCall /\ [][NextVec]_vars

(***************************************************************************)
(* A Module under construction whose registered functions are called: the  *)
(* host registers functions and constants under one Item and the           *)
(* interpreter calls the handlers the function table holds.                *)
(***************************************************************************)
RegOneFunction == RegFunctionOf({<<"empty">>}, SyncFreeFns)

RegOneConstant == RegConstantOf({<<"empty">>}, {HInt(10), HFailing})

CallFunction ==
    \E name \in DOMAIN functions, args \in ArgCounts :
        Invoke(functions[name].handler, args, MaxCalls)

NextRun ==
    \/ RegOneFunction
    \/ RegOneConstant
    \/ PushArg
    \/ CallFunction

SpecRun == InitCall /\ [][NextRun]_vars

(***************************************************************************)
(* Properties of the setup phase (checked under Spec).                     *)
(***************************************************************************)
RegStep == nops' = nops + 1

FnOps == {"function", "async_function", "raw_fn"}

AssocOps == {"inst_fn", "async_inst_fn", "field_fn"}

\* C1: a function / async_function / raw_fn registration whose Item is
\* already in the free-function table, whichever of the three put it there,
\* fails with ConflictingFunctionName carrying that Item, and no stored
\* entry (handler and arity) is ever changed by a later registration.
C1_FirstFunctionWins ==
    [][/\ \A name \in DOMAIN functions :
            /\ name \in DOMAIN functions'
            /\ functions'[name] = functions[name]
       /\ (RegStep /\ result'.op \in FnOps /\ result'.arg \in DOMAIN functions)
            => /\ result'.res = ConflictingFunctionName(result'.arg)
               /\ functions' = functions]_vars

\* An async_function registration was refused because a synchronous function
\* holds the Item, and the synchronous entry is still there.
C1_Witness ==
    /\ result.op = "async_function"
    /\ result.res.kind = "ConflictingFunctionName"
    /\ functions[result.arg].handler.shape = "Function"
    /\ functions[result.arg].args = Some(1)

\* C2: registering a type whose hash is already a key of the types table
\* fails with ConflictingType and leaves the stored entry as the first
\* registration wrote it, also when the two types are distinct and their
\* hashes collide.
C2_TyConflictKeepsFirstEntry ==
    [][(RegStep /\ result'.op = "ty"
            /\ TypeHash(result'.arg) \in DOMAIN types)
         => /\ result'.res.kind = "ConflictingType"
            /\ types' = types]_vars

\* C3: an inst_fn / async_inst_fn / field_fn registration whose key (owning
\* type hash, member hash, kind) is already present fails with
\* ConflictingInstanceFunction, and no stored associated-function entry is
\* ever changed; inst_fn and async_inst_fn share the kind Instance.
C3_FirstMemberWins ==
    [][/\ \A key \in DOMAIN associated_functions :
            /\ key \in DOMAIN associated_functions'
            /\ associated_functions'[key] = associated_functions[key]
       /\ (RegStep /\ result'.op \in AssocOps
                /\ result'.arg \in DOMAIN associated_functions)
            => /\ result'.res.kind = "ConflictingInstanceFunction"
               /\ result'.res.type_info
                    = associated_functions[result'.arg].type_info
               /\ associated_functions' = associated_functions
       /\ (RegStep /\ result'.op \in {"inst_fn", "async_inst_fn"})
            => result'.arg.kind = KindInstance]_vars

\* An async_inst_fn registration was refused because inst_fn had registered
\* the same member of the same type.
C3_Witness ==
    /\ result.op = "async_inst_fn"
    /\ result.res.kind = "ConflictingInstanceFunction"
    /\ associated_functions[result.arg].handler.shape = "InstFn"

\* C4: a member registration conflicts exactly when the identical triple
\* (type hash, member hash, kind) is registered; otherwise it succeeds and
\* the triple is registered afterwards, so an instance method and field
\* hooks for several protocols coexist under one name.
C4_OnlyIdenticalTripleConflicts ==
    [][(RegStep /\ result'.op \in AssocOps)
         => IF result'.arg \in DOMAIN associated_functions
            THEN result'.res.kind = "ConflictingInstanceFunction"
            ELSE /\ result'.res = Ok
                 /\ result'.arg \in DOMAIN associated_functions'
                 /\ DOMAIN associated_functions'
                      = DOMAIN associated_functions \cup {result'.arg}]_vars

\* Counter's member `value` is registered as an instance method, as a GET
\* hook and as a SET hook at once.
C4_Witness ==
    LET key(kind) == [type_hash |-> TypeHash("Counter"),
                      hash |-> HashOf("value"), kind |-> kind]
    IN  /\ key(KindInstance) \in DOMAIN associated_functions
        /\ key(KindFieldFn("GET")) \in DOMAIN associated_functions
        /\ key(KindFieldFn("SET")) \in DOMAIN associated_functions
        /\ result.res = Ok

(***************************************************************************)
(* Properties of the run phase (checked under SpecCall).                   *)
(***************************************************************************)
CallStep == ncalls' = ncalls + 1

\* The arity a registration records with the handler it stores.
RegisteredArgs(h) ==
    LET tab == CASE h.shape = "Function" ->
                        function(EmptyMap, <<"f">>, h.f).tab
                 [] h.shape = "AsyncFunction" ->
                        async_function(EmptyMap, <<"f">>, h.f).tab
                 [] h.shape = "InstFn" ->
                        inst_fn(EmptyMap, StrName("f"), h.f).tab
                 [] h.shape = "AsyncInstFn" ->
                        async_inst_fn(EmptyMap, StrName("f"), h.f).tab
                 [] h.shape = "Raw" ->
                        raw_fn(EmptyMap, <<"f">>, h.f).tab
        entry == tab[CHOOSE k \in DOMAIN tab : TRUE]
    IN  IF entry.handler = h THEN entry.args ELSE None

IsInst(h) == h.shape \in {"InstFn", "AsyncInstFn"}

IsSync(h) == h.shape \in {"Function", "InstFn"}

\* The declared parameters of the native function behind a handler, the
\* receiver first, and how many there are.
Declared(h) == Params(h.f)

NDeclared(h) == Len(Params(h.f))

\* The call is made with the handler's arity on a stack that holds that
\* many values.
ExactCall(h, args) ==
    /\ RegisteredArgs(h).some
    /\ args = RegisteredArgs(h).v
    /\ args = NDeclared(h)
    /\ Len(stack) >= args

\* The value the call supplies for the i-th declared parameter.
Supplied(h, i) == stack[Len(stack) - NDeclared(h) + i]

TypeMatches(p, v) ==
    CASE p.k = "Int" -> v.t = "Integer"
      [] p.k = "Value" -> TRUE
      [] OTHER -> v.t = "Any" /\ ContainerType(v.c) = p.ty

\* The i-th parameter cannot be coerced: its value has the wrong type, or it
\* is a reference to a container whose borrow state (as other code and the
\* parameters before it left it) refuses the borrow.
CannotCoerce(h, i) ==
    LET p == Declared(h)[i]
        v == Supplied(h, i)
        earlier(kinds) ==
            \E j \in 1 .. (i - 1) :
                /\ Declared(h)[j].k \in kinds
                /\ Supplied(h, j).c = v.c
    IN  \/ ~TypeMatches(p, v)
        \/ /\ p.k = "Ref"
           /\ (access[v.c].exclusive > 0 \/ earlier({"Mut"}))
        \/ /\ p.k = "Mut"
           /\ \/ access[v.c].exclusive > 0
              \/ access[v.c].shared > 0
              \/ earlier({"Ref", "Mut"})

Uncoercible(h) == {i \in 1 .. NDeclared(h) : CannotCoerce(h, i)}

Min(S) == CHOOSE x \in S : \A y \in S : x <= y

\* The native function, given these arguments, returns a value and not its
\* own error.
NativeReturnsValue(h) ==
    NativeCall(h.f, [i \in 1 .. NDeclared(h) |-> Supplied(h, i)], fields).ok

\* C5: a call of a fixed-arity handler with a count other than the
\* registered arity N fails with BadArgumentCount (expected N, actual the
\* count supplied), before anything is drained: the stack, the borrow
\* states, the fields and the futures are unchanged and the native function
\* is not invoked.
C5_WrongCountRefusedUntouched ==
    [][(CallStep /\ RegisteredArgs(last'.h).some
            /\ last'.args # RegisteredArgs(last'.h).v)
         => /\ last'.res = BadArgumentCount(last'.args,
                                            RegisteredArgs(last'.h).v)
            /\ ~last'.invoked
            /\ stack' = stack
            /\ access' = access
            /\ fields' = fields
            /\ futures' = futures]_vars

\* A call with one argument too many, all of them on the stack, was refused.
C5_Witness ==
    /\ last.op = "call"
    /\ last.res.kind = "BadArgumentCount"
    /\ last.res.expected = 2
    /\ last.res.actual = 3
    /\ Len(stack) = 3

\* C6 as claimed: a call with exactly N arguments that all coerce, on a
\* stack of height h >= N, succeeds and leaves the stack at height
\* h - N + 1 with the slots below the arguments unchanged.
C6_ExactCallSucceeds ==
    [][(CallStep /\ ExactCall(last'.h, last'.args)
            /\ Uncoercible(last'.h) = {})
         => /\ last'.res = OkCall
            /\ Len(stack') = Len(stack) - last'.args + 1
            /\ SubSeq(stack', 1, Len(stack) - last'.args)
                 = SubSeq(stack, 1, Len(stack) - last'.args)]_vars

\* C6, amended: the same, for calls whose native function returns a value
\* (an asynchronous handler returns its future without running the
\* function); when a synchronous native function returns its own error the
\* call fails and leaves the stack at height h - N.
C6_ExactCallSucceedsUnlessNativeError ==
    [][(CallStep /\ ExactCall(last'.h, last'.args)
            /\ Uncoercible(last'.h) = {})
         => IF IsSync(last'.h) /\ ~NativeReturnsValue(last'.h)
            THEN /\ last'.res = NativeError
                 /\ stack' = SubSeq(stack, 1, Len(stack) - last'.args)
            ELSE /\ last'.res = OkCall
                 /\ Len(stack') = Len(stack) - last'.args + 1
                 /\ SubSeq(stack', 1, Len(stack) - last'.args)
                      = SubSeq(stack, 1, Len(stack) - last'.args)]_vars

\* A two-argument method succeeded above a slot it left alone.
C6_Witness ==
    /\ last.op = "call"
    /\ last.res = OkCall
    /\ last.args = 2
    /\ Len(stack) = 2
    /\ stack[1] = VInt(1)

\* C7: an instance method with k parameters after the receiver is
\* registered with arity k + 1; its handler refuses k arguments with
\* BadArgumentCount expected k + 1 and does not refuse k + 1 for their count.
C7_ReceiverCounted ==
    [][(CallStep /\ IsInst(last'.h))
         => LET k == NDeclared(last'.h) - 1
            IN  /\ RegisteredArgs(last'.h) = Some(k + 1)
                /\ last'.args = k
                     => last'.res = BadArgumentCount(k, k + 1)
                /\ last'.args = k + 1
                     => last'.res.kind # "BadArgumentCount"]_vars

\* increment(&mut self, by) was called with one argument and refused.
C7_Witness ==
    /\ last.op = "call"
    /\ last.h = Handler("InstFn", "increment")
    /\ last.args = 1
    /\ last.res = BadArgumentCount(1, 2)

\* C8: a call with the right count fails with BadArgument exactly when some
\* parameter cannot be coerced, and the position reported is the 0-indexed
\* ordinal, in call order with the receiver first, of the first such
\* parameter.
C8_BadArgumentPosition ==
    [][(CallStep /\ ExactCall(last'.h, last'.args))
         => IF Uncoercible(last'.h) = {}
            THEN last'.res.kind # "BadArgument"
            ELSE last'.res = BadArgument(Min(Uncoercible(last'.h)) - 1)]_vars

\* increment was called on a Counter with a second argument that is not an
\* integer.
C8_Witness ==
    /\ last.op = "call"
    /\ last.h = Handler("InstFn", "increment")
    /\ last.res = BadArgument(1)
    /\ last.acquired = 1

\* C9: a synchronous call releases every guard it acquired, once, on every
\* exit path, so the borrow state of every container after the call is the
\* one before it.
C9_GuardsReleased ==
    [][(CallStep /\ IsSync(last'.h))
         => /\ last'.released = last'.acquired
            /\ access' = access]_vars

\* A call took the receiver's guard, failed to coerce the next argument,
\* and returned with the container borrowed as before: by other code only.
C9_Witness ==
    /\ last.op = "call"
    /\ IsSync(last.h)
    /\ last.res = BadArgument(1)
    /\ last.acquired = 1
    /\ last.released = 1
    /\ access["c1"] = [shared |-> 1, exclusive |-> 0]
    /\ held["c1"] = access["c1"]

\* The borrows outstanding on a container: none, or one exclusive borrow
\* and no shared one, or shared borrows and no exclusive one.
BorrowShapes ==
    \A c \in Containers :
        /\ access[c].shared >= 0
        /\ access[c].exclusive \in {0, 1}
        /\ access[c].exclusive = 1 => access[c].shared = 0

\* C10: at every instant each container is unborrowed, or exclusively
\* borrowed once, or shared; borrow_exclusive is refused while any borrow is
\* outstanding and borrow_shared while an exclusive one is, shared borrows
\* are granted next to shared ones, and a refused acquisition changes
\* nothing.
C10_BorrowDiscipline ==
    /\ []BorrowShapes
    /\ [][/\ last'.op = "borrow_exclusive"
              => LET c == last'.c
                 IN  IF access[c].shared > 0 \/ access[c].exclusive > 0
                     THEN /\ last'.res.kind = "AccessError"
                          /\ access' = access
                          /\ held' = held
                     ELSE /\ last'.res = OkCall
                          /\ access' = [access EXCEPT
                                           ![c] = [shared |-> 0, exclusive |-> 1]]
          /\ last'.op = "borrow_shared"
              => LET c == last'.c
                 IN  IF access[c].exclusive > 0
                     THEN /\ last'.res.kind = "AccessError"
                          /\ access' = access
                          /\ held' = held
                     ELSE /\ last'.res = OkCall
                          /\ access' = [access EXCEPT ![c].shared = @ + 1]]_vars

\* An exclusive borrow was refused while two shared borrows are outstanding.
C10_Witness ==
    /\ last.op = "borrow_exclusive"
    /\ last.res.kind = "AccessError"
    /\ access["c1"] = [shared |-> 2, exclusive |-> 0]

(***************************************************************************)
(* Properties of the futures asynchronous handlers return (SpecCall).      *)
(***************************************************************************)
\* C11: the future an asynchronous handler pushes holds no borrow guard: no
\* guard acquired while coercing a reference-typed argument is still held
\* once the handler call has returned and the future is suspended.
C11_FutureHoldsNoGuard ==
    \A id \in DOMAIN futures : futures[id].guards = <<>>

\* The guards of kind mode the live futures hold on container c.
FutureGuards(c, mode) ==
    {p \in UNION {{<<id, i>> : i \in 1 .. Len(futures[id].guards)} :
                     id \in DOMAIN futures} :
        futures[p[1]].guards[p[2]] = Guard(c, mode)}

\* Every outstanding borrow has a holder: other code or a live future.
Accounted ==
    \A c \in Containers :
        /\ access[c].shared
             = held[c].shared + Cardinality(FutureGuards(c, "shared"))
        /\ access[c].exclusive
             = held[c].exclusive + Cardinality(FutureGuards(c, "exclusive"))

\* C12: when a future goes away, dropped before completion (never polled
\* or suspended) or run to completion, every guard it holds is released:
\* the borrows left on each container are those of the remaining holders,
\* and a container nobody else holds is free to be borrowed exclusively.
C12_FutureGoneGuardsReleased ==
    /\ []Accounted
    /\ [][last'.op \in {"drop", "ready"}
            => LET fut == futures[last'.args]
               IN  /\ last'.args \notin DOMAIN futures'
                   /\ last'.released = Len(fut.guards)
                   /\ \A i \in 1 .. Len(fut.guards) :
                        LET c == fut.guards[i].c
                        IN  (held[c] = Free
                               /\ \A id \in DOMAIN futures' :
                                    \A j \in 1 .. Len(futures'[id].guards) :
                                        futures'[id].guards[j].c # c)
                              => /\ access'[c] = Free
                                 /\ access[c] # Free]_vars

\* A suspended future that held a guard was dropped and the container it
\* borrowed is free.
C12_Witness ==
    /\ last.op = "drop"
    /\ last.state = "suspended"
    /\ last.released = 1
    /\ access["c2"] = Free

(***************************************************************************)
(* Properties of the index-gets (SpecVec).                                 *)
(***************************************************************************)
\* C13: an index-get on a Vec or a Slice with an integer key that is out of
\* range (>= the length) returns an UnsupportedIndexGet error carrying the
\* sequence's type info and the key's type info.
C13_OutOfRangeIsUnsupportedIndexGet ==
    (got.op \in {"vec_get", "slice_get"} /\ got.key.t = "Integer"
        /\ got.key.n >= got.len)
      => /\ got.res.kind = "UnsupportedIndexGet"
         /\ got.res.target.name = (IF got.op = "vec_get" THEN "Vec" ELSE "Slice")
         /\ got.res.index.name = "Integer"

(***************************************************************************)
(* Properties of constant and unit registration (SpecData).                *)
(***************************************************************************)
\* The values that have a constant form, and that form.
Convertible(value) == value.h \in {"Integer", "String"}

ConstantOf(value) == [const |-> value.h, n |-> value.n]

\* C14: constant() converts during the call: for a free name, if a
\* conversion step fails it returns ValueError and the constants table is
\* unchanged, and if both succeed the table gains the converted constant
\* under the name and nothing else changes.
C14_ConstantConvertedAtRegistration ==
    [][(RegStep /\ result'.op = "constant"
            /\ result'.arg.name \notin DOMAIN constants)
         => IF Convertible(result'.arg.value)
            THEN /\ result'.res = Ok
                 /\ constants' = Insert(constants, result'.arg.name,
                                        ConstantOf(result'.arg.value))
            ELSE /\ result'.res.kind = "ValueError"
                 /\ constants' = constants]_vars

\* A constant whose value has no constant form was refused after another
\* constant had been stored.
C14_Witness ==
    /\ result.op = "constant"
    /\ result.res.kind = "ValueError"
    /\ result.arg.value = HCounter
    /\ result.arg.name \notin DOMAIN constants
    /\ DOMAIN constants # {}

\* C15: a constant() call whose Item is already in the constants table
\* fails with ConflictingConstantName naming that Item and leaves the table
\* unchanged, also when the new value would fail conversion.
C15_FirstConstantWins ==
    [][(RegStep /\ result'.op = "constant"
            /\ result'.arg.name \in DOMAIN constants)
         => /\ result'.res = ConflictingConstantName(result'.arg.name)
            /\ constants' = constants]_vars

\* A duplicate constant whose value fails to convert was refused for its
\* name.
C15_Witness ==
    /\ result.op = "constant"
    /\ result.res.kind = "ConflictingConstantName"
    /\ result.arg.value = HFailing
    /\ constants[result.arg.name] = ConstantOf(HInt(10))

\* C16: the first unit(name) call succeeds and stores the name; every later
\* unit() call, with the same or another name, fails with
\* UnitAlreadyPresent, and the stored name never changes.
C16_OneUnitType ==
    [][/\ unit_type.some => unit_type' = unit_type
       /\ (RegStep /\ result'.op = "unit")
            => IF unit_type.some
               THEN result'.res = UnitAlreadyPresent
               ELSE /\ result'.res = Ok
                    /\ unit_type' = [some |-> TRUE, name |-> result'.arg]]_vars

\* A second unit() call with another name was refused and the first name is
\* still stored.
C16_Witness ==
    /\ result.op = "unit"
    /\ result.res = UnitAlreadyPresent
    /\ unit_type.some
    /\ unit_type.name # result.arg

(***************************************************************************)
(* More properties of member registration (Spec).                          *)
(***************************************************************************)
\* C17: the error of a duplicate instance-method or field-protocol
\* registration carries the owning type's TypeInfo and a non-empty member
\* name, whether the member was named by a string or by a Hash.
C17_ConflictNamesTypeAndMember ==
    [][(RegStep /\ result'.op \in AssocOps
            /\ result'.res.kind = "ConflictingInstanceFunction")
         => /\ result'.res.type_info
                 = associated_functions[result'.arg].type_info
            /\ result'.res.name # ""]_vars

\* C20: a member registration never consults the types table: it leaves it
\* unchanged, fails only with ConflictingInstanceFunction, and succeeds
\* whenever its key is free, whether or not the owning type is registered;
\* a later ty() keeps every member registered before it.
C20_MemberNeedsNoType ==
    [][/\ (RegStep /\ result'.op \in AssocOps)
            => /\ types' = types
               /\ result'.res.kind \in {"Ok", "ConflictingInstanceFunction"}
               /\ result'.arg \notin DOMAIN associated_functions
                    => /\ result'.res = Ok
                       /\ result'.arg \in DOMAIN associated_functions'
       /\ (RegStep /\ result'.op = "ty")
            => \A key \in DOMAIN associated_functions :
                   /\ key \in DOMAIN associated_functions'
                   /\ associated_functions'[key] = associated_functions[key]]_vars

\* A member of MyBytes was registered on a Module whose types table has no
\* entry for MyBytes.
C20_Witness ==
    /\ result.op \in AssocOps
    /\ result.res = Ok
    /\ result.arg.type_hash = TypeHash("MyBytes")
    /\ TypeHash("MyBytes") \notin DOMAIN types
    /\ result.arg \in DOMAIN associated_functions

(***************************************************************************)
(* Properties of the internal enums (SpecEnum).                            *)
(***************************************************************************)
\* The discriminant the virtual machine's type check gives a value of an
\* internal enum.
Discriminant(v) ==
    CASE v.c \in {"Some", "Ok", "Complete"}  -> 0
      [] v.c \in {"None", "Err", "Yielded"}  -> 1

\* The variants each enum declares: name, tag, argument count.
DeclaredVariants(enum) ==
    CASE enum = "Option" -> <<<<"Some", 0, 1>>, <<"None", 1, 0>>>>
      [] enum = "Result" -> <<<<"Ok", 0, 1>>, <<"Err", 1, 1>>>>
      [] enum = "GeneratorState" -> <<<<"Complete", 0, 1>>, <<"Yielded", 1, 1>>>>

EnumShape ==
    \A i \in 1 .. Len(internal_enums) :
        LET e == internal_enums[i]
        IN  /\ e.name \in {"Option", "Result", "GeneratorState"}
            /\ Len(e.variants) = 2
            /\ \A j \in 1 .. 2 :
                 /\ e.variants[j].name = DeclaredVariants(e.name)[j][1]
                 /\ e.variants[j].type_check
                      = [enum |-> e.name, tag |-> DeclaredVariants(e.name)[j][2]]
                 /\ e.variants[j].args = DeclaredVariants(e.name)[j][3]

\* The registered variants whose constructor is the handler h.
VariantsOf(h) ==
    {v \in UNION {{internal_enums[i].variants[j] : j \in 1 .. 2} :
                     i \in 1 .. Len(internal_enums)} :
        v.constructor = h}

\* C18: every registered internal enum has its two variants in order, with
\* tags 0 then 1 and the declared argument counts; invoking a variant's
\* constructor with its declared argument count on a stack that holds the
\* arguments yields a value of that enum whose discriminant is the
\* variant's tag and which wraps the arguments.
C18_ConstructorMatchesTag ==
    /\ []EnumShape
    /\ [][CallStep
            => \A v \in VariantsOf(last'.h) :
                 (last'.args = v.args /\ Len(stack) >= v.args)
                   => /\ last'.res = OkCall
                      /\ Len(stack') = Len(stack) - v.args + 1
                      /\ stack'[Len(stack')].t = v.type_check.enum
                      /\ Discriminant(stack'[Len(stack')]) = v.type_check.tag
                      /\ stack'[Len(stack')].c = v.name
                      /\ stack'[Len(stack')].p
                           = SubSeq(stack, Len(stack) - v.args + 1,
                                    Len(stack))]_vars

\* Option's None constructor, registered with tag 1, was invoked with no
\* argument and left a None above an untouched slot.
C18_Witness ==
    /\ last.op = "call"
    /\ last.h = Handler("Function", "Option::None")
    /\ last.args = 0
    /\ Len(stack) = 2
    /\ stack[2] = VVariant("Option", "None", <<>>)
    /\ \E i \in 1 .. Len(internal_enums) : internal_enums[i].name = "Option"

(***************************************************************************)
(* The Counter scenario (SpecCounter).                                     *)
(***************************************************************************)
\* The Counter a member call was made on: the deepest drained slot.
Receiver == stack[Len(stack) - last'.args + 1].c

\* C19: a successful increment(&mut self, by) adds by to the field of the
\* Counter the interpreter owns, nothing but a member call changes a
\* field, and a successful call of the GET hook of `value` returns the
\* field as it then is; so a read after an increment returns the modified
\* value.
C19_ReadReflectsIncrement ==
    [][/\ ~CallStep => fields' = fields
       /\ (CallStep /\ last'.res = OkCall
                /\ last'.h = Handler("InstFn", "increment"))
            => fields' = [fields EXCEPT
                             ![Receiver] = @ + stack[Len(stack)].n]
       /\ (CallStep /\ last'.res = OkCall
                /\ last'.h = Handler("InstFn", "value"))
            => /\ fields' = fields
               /\ stack'[Len(stack')] = VInt(fields[Receiver])]_vars

\* The GET hook was called after an increment of the same Counter and
\* returned the incremented value.
C19_Witness ==
    /\ last.op = "call"
    /\ last.h = Handler("InstFn", "value")
    /\ last.res = OkCall
    /\ ncalls = 2
    /\ fields["c2"] = 2
    /\ stack[Len(stack)] = VInt(2)

(***************************************************************************)
(* Claims about the install hook of a type.                                *)
(***************************************************************************)
\* The keys the members of a deriving type are registered under, in the
\* order its declaration lists them: the method of the custom install
\* function first, then the annotated fields.
HookKeys(T) ==
    IF T = "Gauge"
    THEN <<ModuleAssocKey(TypeHash("Gauge"), HashOf("reset"), KindInstance),
           ModuleAssocKey(TypeHash("Gauge"), HashOf("level"), KindFieldFn("GET")),
           ModuleAssocKey(TypeHash("Gauge"), HashOf("level"), KindFieldFn("SET")),
           ModuleAssocKey(TypeHash("Gauge"), HashOf("limit"), KindFieldFn("GET"))>>
    ELSE <<ModuleAssocKey(TypeHash("Counter"), HashOf("value"), KindFieldFn("GET"))>>

\* The position of the first key of the hook that is already taken, or one
\* past the last when none is.
FirstTaken(keys, tab) ==
    LET taken == {i \in 1 .. Len(keys) : keys[i] \in DOMAIN tab}
    IN  IF taken = {}
        THEN Len(keys) + 1
        ELSE CHOOSE i \in taken : \A j \in taken : i <= j

FreshTy == RegStep /\ result'.op = "ty"
               /\ TypeHash(result'.arg) \notin DOMAIN types

\* C21: ty() of a type that is not yet registered inserts the type record
\* and then runs the hook; when a member of the hook is already taken the
\* call returns that conflict and nothing is rolled back: the type record
\* and exactly the members the hook registered before the failing one are
\* in the Module, next to everything that was there before.
C21_TyKeepsPartialHook ==
    [][FreshTy =>
         LET T == result'.arg
             keys == HookKeys(T)
             k == FirstTaken(keys, associated_functions)
         IN  /\ TypeHash(T) \in DOMAIN types'
             /\ types'[TypeHash(T)].name = T
             /\ DOMAIN associated_functions'
                  = DOMAIN associated_functions \cup {keys[i] : i \in 1 .. k - 1}
             /\ \A key \in DOMAIN associated_functions :
                    associated_functions'[key] = associated_functions[key]
             /\ (k <= Len(keys))
                  <=> result'.res.kind = "ConflictingInstanceFunction"
             /\ (k > Len(keys)) <=> result'.res = Ok]_vars

\* ty(Gauge) failed on the SET hook of `level`, which had been registered
\* by hand; Gauge, `reset` and the GET hook of `level` are in the Module
\* and the GET hook of `limit` is not.
C21_Witness ==
    /\ nops = 2
    /\ result.op = "ty"
    /\ result.arg = "Gauge"
    /\ result.res.kind = "ConflictingInstanceFunction"
    /\ TypeHash("Gauge") \in DOMAIN types
    /\ HookKeys("Gauge")[1] \in DOMAIN associated_functions
    /\ HookKeys("Gauge")[2] \in DOMAIN associated_functions
    /\ HookKeys("Gauge")[4] \notin DOMAIN associated_functions

\* The registrations of Gauge and of Counter written by hand, each call
\* followed by `?`.
HandWritten(T, tab) ==
    IF T = "Gauge"
    THEN LET a == inst_fn(tab, StrName("reset"), "reset")
         IN  IF a.res # Ok THEN a ELSE
             LET b == field_fn(a.tab, "GET", StrName("level"), "get_level")
             IN  IF b.res # Ok THEN b ELSE
                 LET c == field_fn(b.tab, "SET", StrName("level"), "set_level")
                 IN  IF c.res # Ok THEN c ELSE
                     field_fn(c.tab, "GET", StrName("limit"), "get_limit")
    ELSE field_fn(tab, "GET", StrName("value"), "value")

\* C25: the hook the code generator writes for a type leaves the member
\* table, and returns the result, that the same registration calls written
\* by hand would: the custom install function first, then one field_fn per
\* field in declaration order and per protocol in annotation order, the
\* first error ending the sequence.
C25_HookIsHandWrittenCalls ==
    [][FreshTy =>
         LET hand == HandWritten(result'.arg, associated_functions)
         IN  /\ associated_functions' = hand.tab
             /\ result'.res = hand.res]_vars

\* ty(Gauge) succeeded on a Module without members and installed the four
\* members of its declaration, each with the accessor of its field.
C25_Witness ==
    /\ nops = 1
    /\ result.op = "ty"
    /\ result.arg = "Gauge"
    /\ result.res = Ok
    /\ DOMAIN associated_functions = {HookKeys("Gauge")[i] : i \in 1 .. 4}
    /\ associated_functions[HookKeys("Gauge")[3]].handler
         = Handler("InstFn", "set_level")

(***************************************************************************)
(* Claims about the errors of a call.                                      *)
(***************************************************************************)
\* C22: when the native function of a synchronous handler returns its own
\* error the call fails with that error and pushes nothing: the stack is
\* what the drain left.  The native function's error is reported only by
\* calls that coerced every argument and invoked the function, and
\* BadArgument only by calls that did not invoke it because an argument
\* could not be coerced.
C22_NativeErrorIsNotBadArgument ==
    [][(CallStep /\ IsSync(last'.h))
         => /\ (ExactCall(last'.h, last'.args) /\ Uncoercible(last'.h) = {}
                    /\ ~NativeReturnsValue(last'.h))
                 => /\ last'.res = NativeError
                    /\ last'.invoked
                    /\ stack' = SubSeq(stack, 1, Len(stack) - last'.args)
            /\ last'.res = NativeError
                 => /\ last'.invoked
                    /\ ExactCall(last'.h, last'.args)
                    /\ Uncoercible(last'.h) = {}
                    /\ ~NativeReturnsValue(last'.h)
            /\ last'.res.kind = "BadArgument"
                 => /\ ~last'.invoked
                    /\ Uncoercible(last'.h) # {}]_vars

\* merge(&mut self, other) was invoked on two Counters, returned its own
\* error, and the call left only the slot below the arguments.
C22_Witness ==
    /\ last.op = "call"
    /\ last.h = Handler("InstFn", "merge")
    /\ last.res = NativeError
    /\ last.invoked
    /\ last.acquired = 2
    /\ Len(stack) = 1

(***************************************************************************)
(* Claims about protocol hooks.                                            *)
(***************************************************************************)
\* The handler of the one entry of a member table.
StoredHandler(tab) == tab[CHOOSE key \in DOMAIN tab : TRUE].handler

\* C24: the handler inst_fn stores for a native function under a name, the
\* one it stores under a protocol hash and the one field_fn stores as a
\* protocol hook of a field are the same calling mechanism: whenever the
\* named method's handler is called, the other two, called on the same
\* stack with the same count, give the same result, stack, borrow states
\* and fields; the three registrations differ in their keys only.
C24_ProtocolHookSamePath ==
    [][(CallStep /\ last'.h.shape = "InstFn")
         => LET f == last'.h.f
                named == inst_fn(EmptyMap, StrName("get"), f).tab
                hashed == inst_fn(EmptyMap,
                                  HashName(ProtocolHash("INDEX_GET")), f).tab
                hooked == field_fn(EmptyMap, "GET", StrName("get"), f).tab
                o(tab) == HandlerCall(StoredHandler(tab), ncalls + 1, stack,
                                      access, fields, last'.args)
            IN  /\ StoredHandler(named) = last'.h
                /\ \A tab \in {hashed, hooked} :
                       /\ o(tab).res = last'.res
                       /\ o(tab).stack = stack'
                       /\ o(tab).access = access'
                       /\ o(tab).fields = fields'
                       /\ o(tab).fut = NoFuture
                /\ DOMAIN named # DOMAIN hashed
                /\ DOMAIN named # DOMAIN hooked
                /\ DOMAIN hashed # DOMAIN hooked]_vars

\* The method `value` was called through the handler a named registration
\* stores, which is the handler the GET hook of the field stores, and
\* returned the field.
C24_Witness ==
    /\ last.op = "call"
    /\ last.res = OkCall
    /\ last.h = StoredHandler(inst_fn(EmptyMap, StrName("value"), "value").tab)
    /\ last.h = StoredHandler(field_fn(EmptyMap, "GET", StrName("value"),
                                       "value").tab)
    /\ stack[Len(stack)].t = "Integer"

(***************************************************************************)
(* Claims about recorded arities and the binding of arguments.             *)
(***************************************************************************)
\* The arity field_fn records with the hook it stores for a method.
FieldFnArgs(f) ==
    LET tab == field_fn(EmptyMap, "GET", StrName("f"), f).tab
    IN  tab[CHOOSE key \in DOMAIN tab : TRUE].args

\* C26: function and async_function record Some(N) for a native function
\* of N parameters; inst_fn, field_fn and async_inst_fn record Some(k + 1)
\* for one of k parameters after the receiver; raw_fn records None, and a
\* call of a raw handler is the call of the host's function with the stack
\* and the count supplied, whatever the count: it is never refused with
\* BadArgumentCount.
C26_RecordedArity ==
    [][CallStep
         => LET h == last'.h
                k == NDeclared(h) - 1
                raw == raw_count(stack, access, fields, last'.args)
            IN  /\ h.shape \in {"Function", "AsyncFunction"}
                     => RegisteredArgs(h) = Some(NDeclared(h))
                /\ IsInst(h) => RegisteredArgs(h) = Some(k + 1)
                /\ h.shape = "InstFn" => FieldFnArgs(h.f) = Some(k + 1)
                /\ h.shape = "Raw"
                     => /\ RegisteredArgs(h) = None
                        /\ last'.res.kind # "BadArgumentCount"
                        /\ last'.res = raw.res
                        /\ stack' = raw.stack]_vars

\* A raw handler was called with three arguments on a stack of three and
\* ran its function, which pushed the count.
C26_Witness ==
    /\ last.op = "call"
    /\ last.h.shape = "Raw"
    /\ last.args = 3
    /\ last.invoked
    /\ last.res = OkCall
    /\ stack = <<VInt(3)>>

\* The values a call supplies, in the order of the declared parameters: the
\* deepest of the N drained slots first, the top of the stack last.
SuppliedInOrder(h) == [i \in 1 .. NDeclared(h) |-> Supplied(h, i)]

\* C27: a call with the handler's arity whose arguments all coerce hands the
\* native function the drained values in call order: the deepest drained
\* slot as the leftmost parameter (the receiver of a method), the top of
\* the stack as the rightmost.  A synchronous call has the effect and the
\* return value of the function on the values in that order; an
\* asynchronous call stores them in that order in its future.
C27_BoundInCallOrder ==
    [][(CallStep /\ ExactCall(last'.h, last'.args)
            /\ Uncoercible(last'.h) = {})
         => LET h == last'.h
                n == NativeCall(h.f, SuppliedInOrder(h), fields)
            IN  IF IsSync(h)
                THEN /\ last'.invoked
                     /\ fields' = n.fields
                     /\ n.ok => /\ last'.res = OkCall
                                /\ stack'[Len(stack')] = n.v
                ELSE /\ (ncalls + 1) \in DOMAIN futures'
                     /\ futures'[ncalls + 1].outs = SuppliedInOrder(h)]_vars

\* increment(&mut self, by) was called with a Counter below an integer and
\* added the integer to that Counter.
C27_Witness ==
    /\ last.op = "call"
    /\ last.h = Handler("InstFn", "increment")
    /\ last.res = OkCall
    /\ last.invoked
    /\ fields["c2"] = 2

(***************************************************************************)
(* Claims about the keys of an index-get (SpecVec).                        *)
(***************************************************************************)
\* C28: an index-get on a Vec or a Slice returns a value or an error for
\* every key; it never aborts.
C28_IndexGetNeverAborts ==
    got.op \in {"vec_get", "slice_get"} => got.res.kind # "Panic"

\* The first index a range key covers and the one past the last, for a
\* sequence of length len: a missing start is 0, a missing end is the
\* length, a closed range includes its end.
RangeLo(key) == IF key.start = <<>> THEN 0 ELSE key.start[1].n

RangeHi(key, len) ==
    IF key.end = <<>> THEN len
    ELSE IF key.limits = "Closed" THEN key.end[1].n + 1
    ELSE key.end[1].n

\* The limits of a range key are in bounds for a sequence of length len.
InBounds(key, len) ==
    /\ RangeLo(key) >= 0
    /\ key.end # <<>> => key.end[1].n >= 0
    /\ RangeLo(key) <= RangeHi(key, len)
    /\ RangeHi(key, len) <= len

\* C29: a negative integer key fails with ValueToIntegerCoercionError to
\* usize; a range key with in-bounds limits returns the Slice of exactly the
\* indices from its start (0 when missing) to its end (the length when
\* missing; included when the range is closed) of the sequence indexed; a
\* key that is neither fails with UnsupportedIndexGet carrying the type
\* info of Vec or of Slice and the key's type info.
C29_KeyClassification ==
    got.op \in {"vec_get", "slice_get"}
      => /\ (got.key.t = "Integer" /\ got.key.n < 0)
              => got.res = ValueToIntegerCoercionError(got.key.n, "usize")
         /\ (got.key.t = "Range" /\ InBounds(got.key, got.len))
              => got.res = OkValue(VSlice(got.base + RangeLo(got.key),
                                          got.base + RangeHi(got.key, got.len)))
         /\ got.key.t \notin {"Integer", "Range"}
              => got.res = UnsupportedIndexGet(
                               IF got.op = "vec_get"
                               THEN StaticTypeInfo("Vec")
                               ELSE TypeInfoOf("Slice"),
                               StaticTypeInfo(got.key.t))

\* A Slice that starts at the second element of the Vec was indexed with
\* the closed range 0..=0 and returned the Slice of that element.
C29_Witness ==
    /\ got.op = "slice_get"
    /\ got.base = 1
    /\ got.key = VRange(<<VInt(0)>>, <<VInt(0)>>, "Closed")
    /\ got.res = OkValue(VSlice(1, 2))

(***************************************************************************)
(* Claims about the key spaces of a Module (SpecData).                     *)
(***************************************************************************)
\* C30: function, macro_ and constant each consult and change their own
\* table only: a function or macro registration of an Item that its own
\* table does not hold succeeds, and so does a constant registration of a
\* convertible value, whatever the other two tables hold; a macro
\* registration of an Item the macro table holds fails with
\* ConflictingFunctionName carrying the Item and leaves the macro table as
\* it was.
C30_IndependentKeySpaces ==
    [][/\ (RegStep /\ result'.op = "function")
            => /\ macros' = macros
               /\ constants' = constants
               /\ result'.arg \notin DOMAIN functions
                    => /\ result'.res = Ok
                       /\ result'.arg \in DOMAIN functions'
       /\ (RegStep /\ result'.op = "macro_")
            => /\ functions' = functions
               /\ constants' = constants
               /\ IF result'.arg \in DOMAIN macros
                  THEN /\ result'.res = ConflictingFunctionName(result'.arg)
                       /\ macros' = macros
                  ELSE /\ result'.res = Ok
                       /\ DOMAIN macros' = DOMAIN macros \cup {result'.arg}
                       /\ \A name \in DOMAIN macros :
                              macros'[name] = macros[name]
       /\ (RegStep /\ result'.op = "constant")
            => /\ functions' = functions
               /\ macros' = macros
               /\ (result'.arg.name \notin DOMAIN constants
                        /\ Convertible(result'.arg.value))
                    => /\ result'.res = Ok
                       /\ result'.arg.name \in DOMAIN constants']_vars

\* The Item `empty` was registered as a macro, as a constant and last as a
\* function, each time with success.
C30_Witness ==
    /\ nops = 3
    /\ result.op = "function"
    /\ result.arg = <<"empty">>
    /\ result.res = Ok
    /\ <<"empty">> \in DOMAIN functions
    /\ <<"empty">> \in DOMAIN macros
    /\ <<"empty">> \in DOMAIN constants

(***************************************************************************)
(* Claims about the two phases' errors (SpecRun).                          *)
(***************************************************************************)
ContextErrorKinds ==
    {"ConflictingFunctionName", "ConflictingType",
     "ConflictingInstanceFunction", "ConflictingConstantName",
     "UnitAlreadyPresent", "ValueError"}

VmErrorKinds == {"BadArgumentCount", "BadArgument", "StackError",
                 "NativeError"}

EnumOps == {"option", "result", "generator_state"}

\* C31: option, result and generator_state always return Ok and append one
\* descriptor to internal_enums, keeping those already there, whether or
\* not an equal descriptor is in the list; so the length of the list is the
\* number of such calls made.
C31_EnumsAppendOnly ==
    /\ [](Len(internal_enums) = nops)
    /\ [][(RegStep /\ result'.op \in EnumOps)
            => /\ result'.res = Ok
               /\ Len(internal_enums') = Len(internal_enums) + 1
               /\ SubSeq(internal_enums', 1, Len(internal_enums))
                    = internal_enums
               /\ internal_enums'[Len(internal_enums')].base_type
                    = result'.arg]_vars

\* Result was registered twice with the same base path and the list holds
\* the same descriptor twice.
C31_Witness ==
    /\ nops = 2
    /\ result.op = "result"
    /\ result.res = Ok
    /\ Len(internal_enums) = 2
    /\ internal_enums[1] = internal_enums[2]
    /\ internal_enums[1].name = "Result"

(***************************************************************************)
(* Claims about failed and asynchronous calls (SpecCall).                  *)
(***************************************************************************)
\* The call passes the count check of a fixed-arity handler and the stack
\* holds the arguments.
CountAccepted(h, args) ==
    /\ RegisteredArgs(h).some
    /\ args = RegisteredArgs(h).v
    /\ Len(stack) >= args

\* C32: a call of a fixed-arity handler that passes the count check and
\* then fails, because an argument does not coerce or because the native
\* function's return value does not convert, leaves the stack without the N
\* argument slots and with nothing pushed; a call that fails on a coercion
\* has not invoked the native function.
C32_FailedCallLeavesDrainedStack ==
    [][(CallStep /\ CountAccepted(last'.h, last'.args)
            /\ last'.res # OkCall)
         => /\ last'.res.kind \in {"BadArgument", "NativeError"}
            /\ stack' = SubSeq(stack, 1, Len(stack) - last'.args)
            /\ last'.res.kind = "BadArgument" => ~last'.invoked]_vars

\* A two-argument method called on a stack of three failed to coerce an
\* argument and left the one slot below its arguments.
C32_Witness ==
    /\ last.op = "call"
    /\ last.args = 2
    /\ last.res.kind = "BadArgument"
    /\ ~last.invoked
    /\ Len(stack) = 1

\* The guards the parameters before the k-th take: one per reference.
GuardsBefore(h, k) ==
    Cardinality({i \in 1 .. (k - 1) : Declared(h)[i].k \in {"Ref", "Mut"}})

\* C33: the arguments are coerced in call order, the receiver first, and
\* the first failure ends the coercion: the position reported is that of
\* the first argument that cannot be coerced, however many cannot, and the
\* guards acquired are those of the parameters before it.
C33_CoercionStopsAtFirstFailure ==
    [][(CallStep /\ ExactCall(last'.h, last'.args)
            /\ Uncoercible(last'.h) # {})
         => LET k == Min(Uncoercible(last'.h))
            IN  /\ last'.res = BadArgument(k - 1)
                /\ ~last'.invoked
                /\ last'.acquired = GuardsBefore(last'.h, k)]_vars

\* merge(&mut self, other) was called with two integers: both arguments are
\* ill-typed, the receiver's position was reported and no guard was taken.
C33_Witness ==
    /\ last.op = "call"
    /\ last.h = Handler("InstFn", "merge")
    /\ last.vals = <<VInt(1), VInt(1)>>
    /\ last.res = BadArgument(0)
    /\ last.acquired = 0

IsAsyncHandler(h) == h.shape \in {"AsyncFunction", "AsyncInstFn"}

\* C34: a call of an asynchronous handler checks the count, drains and
\* coerces the arguments before it returns: a wrong count fails with
\* BadArgumentCount and an argument that cannot be coerced with BadArgument,
\* both without creating a future; otherwise the call pushes one future in
\* place of the arguments.  The call itself never runs the native function
\* and changes no field; the function runs when the future is polled to
\* completion, and only then is its output converted, so a poll reports Ok
\* or the function's own error.
C34_AsyncChecksEagerly ==
    [][/\ (CallStep /\ IsAsyncHandler(last'.h))
            => LET h == last'.h
                   id == ncalls + 1
               IN  /\ ~last'.invoked
                   /\ fields' = fields
                   /\ last'.args # RegisteredArgs(h).v
                        => /\ last'.res = BadArgumentCount(last'.args,
                                              RegisteredArgs(h).v)
                           /\ futures' = futures
                           /\ stack' = stack
                   /\ (ExactCall(h, last'.args) /\ Uncoercible(h) # {})
                        => /\ last'.res = BadArgument(Min(Uncoercible(h)) - 1)
                           /\ futures' = futures
                   /\ (ExactCall(h, last'.args) /\ Uncoercible(h) = {})
                        => /\ last'.res = OkCall
                           /\ stack' = Append(SubSeq(stack, 1,
                                                  Len(stack) - last'.args),
                                              VFuture(id))
                           /\ DOMAIN futures' = DOMAIN futures \cup {id}
                           /\ futures'[id].f = h.f
                           /\ futures'[id].state = "created"
       /\ (~CallStep /\ last'.op = "ready" /\ futures' # futures)
            => LET fut == futures[last'.args]
                   n == NativeCall(fut.f, fut.outs, fields)
               IN  /\ last'.invoked
                   /\ last'.res = (IF n.ok THEN OkCall ELSE NativeError)
                   /\ fields' = n.fields]_vars

\* An asynchronous method was called, returned its future, and the future
\* was then polled to completion, which ran the function.
C34_Witness ==
    /\ ncalls = 1
    /\ last.op = "ready"
    /\ last.invoked
    /\ last.res = OkCall
    /\ futures = EmptyMap

(***************************************************************************)
(* Claims about the Slice index-set (SpecVec).                             *)
(***************************************************************************)
\* C35: Slice::set with a key at or past the length of the Slice fails with
\* OutOfRange carrying the key and the length; with a key below the length
\* it either fails with the error of the refused upgrade or stores the
\* value in element key of the Slice and nothing else.  A failed call
\* leaves the elements of the Vec as they were, and on every path the
\* borrow state of the Vec after the call is the one before it, without
\* exclusive access.
C35_SliceSet ==
    [][(got'.op = "slice_set" /\ (got' # got \/ vec' # vec))
         => LET key == got'.key.n
                len == slice.hi - slice.lo
            IN  /\ slice' = slice
                /\ vec_access' = vec_access
                /\ vec_access'.exclusive = 0
                /\ IF key >= len
                   THEN /\ got'.res = OutOfRange(key, len)
                        /\ vec' = vec
                   ELSE \/ /\ got'.res = AccessError
                           /\ vec' = vec
                        \/ /\ got'.res = OkCall
                           /\ vec' = [vec EXCEPT ![slice.lo + key + 1]
                                                     = got'.value]]_vars

\* A Slice over the second element of the Vec stored a value in its element
\* 0: the second element holds it, the first is as pushed, and the Slice's
\* shared borrow is the only one left.
C35_Witness ==
    /\ got.op = "slice_set"
    /\ got.res = OkCall
    /\ got.base = 1
    /\ got.key = VInt(0)
    /\ got.value = VInt(2)
    /\ vec = <<VInt(1), VInt(2)>>
    /\ vec_access = [shared |-> 1, exclusive |-> 0]

(***************************************************************************)
(* The std::vec module (modules/vec.rs): module() makes the registrations  *)
(* below in this order on a new Module, each followed by `?`.  Once it     *)
(* has returned Ok the interpreter dispatches push and index-get to the    *)
(* handlers the module registered.                                         *)
(***************************************************************************)
TyCall(T) == [op |-> "ty", T |-> T, name |-> StrName(""), f |-> ""]

FunctionCall(name, f) ==
    [op |-> "function", T |-> "", name |-> StrName(name[Len(name)]), f |-> f,
     item |-> name]

InstFnCall(name, f) == [op |-> "inst_fn", T |-> "", name |-> name, f |-> f]

StdVecCalls ==
    << TyCall("Vec"),
       FunctionCall(<<"Vec", "new">>, "Vec::new"),
       InstFnCall(StrName("clear"), "Vec::clear"),
       InstFnCall(StrName("clone"), "Vec::clone"),
       InstFnCall(StrName("extend"), "Vec::extend"),
       InstFnCall(StrName("get"), "vec_get"),
       InstFnCall(StrName("iter"), "Vec::into_iterator"),
       InstFnCall(StrName("len"), "Vec::len"),
       InstFnCall(StrName("pop"), "Vec::pop"),
       InstFnCall(StrName("push"), "Vec::push"),
       InstFnCall(StrName("remove"), "Vec::remove"),
       InstFnCall(HashName(ProtocolHash("INTO_ITER")), "Vec::into_iterator"),
       InstFnCall(HashName(ProtocolHash("INDEX_SET")), "Vec::set"),
       InstFnCall(HashName(ProtocolHash("INDEX_GET")), "vec_get"),
       InstFnCall(StrName("sort_int"), "sort_int"),
       TyCall("Slice"),
       InstFnCall(StrName("len"), "Slice::len"),
       InstFnCall(HashName(ProtocolHash("INDEX_GET")), "slice_get"),
       InstFnCall(HashName(ProtocolHash("INDEX_SET")), "Slice::set"),
       InstFnCall(HashName(ProtocolHash("STRING_DEBUG")), "Slice::string_debug") >>

\* Module::with_crate_item("std", &["vec"]).
InitStdVec == Init /\ item = <<"std", "vec">>

\* The next statement of module(): it runs when every statement before it
\* returned Ok.
StdVecStep ==
    /\ result.res = Ok
    /\ nops < Len(StdVecCalls)
    /\ LET call == StdVecCalls[nops + 1]
           r == CASE call.op = "ty" ->
                       ty(types, associated_functions, call.T)
                  [] call.op = "function" ->
                       LET q == function(functions, call.item, call.f)
                       IN  [functions |-> q.tab, res |-> q.res]
                  [] call.op = "inst_fn" ->
                       inst_fn(associated_functions, call.name, call.f)
       IN  /\ types' = IF call.op = "ty" THEN r.types ELSE types
           /\ associated_functions' =
                  IF call.op \in {"ty", "inst_fn"} THEN r.tab
                  ELSE associated_functions
           /\ functions' = IF call.op = "function" THEN r.functions
                           ELSE functions
           /\ result' = [op |-> call.op, arg |-> nops + 1, res |-> r.res]
    /\ nops' = nops + 1
    /\ UNCHANGED <<item, macros, constants, unit_type, internal_enums>>
    /\ UNCHANGED <<callVars, vecVars>>

\* module() returned Ok(module).
StdVecBuilt == nops = Len(StdVecCalls) /\ result.res = Ok

\* The member the interpreter looks up for a call on a value of type T.
MemberKey(T, name) ==
    ModuleAssocKey(TypeHash(T), inst_fn_name_hash(name), KindInstance)

HasMember(T, name, f) ==
    /\ ContainsKey(associated_functions, MemberKey(T, name))
    /\ associated_functions[MemberKey(T, name)].handler = Handler("InstFn", f)

StdVecPush ==
    /\ StdVecBuilt
    /\ HasMember("Vec", StrName("push"), "Vec::push")
    /\ VecPush

StdVecGet ==
    /\ StdVecBuilt
    /\ HasMember("Vec", HashName(ProtocolHash("INDEX_GET")), "vec_get")
    /\ VecGet

StdSliceDrop ==
    /\ StdVecBuilt
    /\ SliceDrop

NextStdVec ==
    \/ StdVecStep
    \/ StdVecPush
    \/ StdVecGet
    \/ StdSliceDrop

SpecStdVec == InitStdVec /\ [][NextStdVec]_vars

\* The members registered on the type T.
MembersOf(T) == {k \in DOMAIN associated_functions : k.type_hash = TypeHash(T)}

\* C36: constructing the std::vec module never meets a conflict.  Every
\* statement of module() returns Ok and adds one new key, so when the
\* last one has run the module holds the two types Vec and Slice, the one
\* function Vec::new and 17 members, 13 on Vec and 4 on Slice; `len` is on
\* both types, and `get` and `iter` stand beside the INDEX_GET and
\* INTO_ITER members with the same handlers.
C36_StdVecBuildsWithoutConflict ==
    /\ result.res = Ok
    /\ Cardinality(DOMAIN types) + Cardinality(DOMAIN functions)
         + Cardinality(DOMAIN associated_functions) = nops
    /\ nops = Len(StdVecCalls) =>
         /\ DOMAIN types = {TypeHash("Vec"), TypeHash("Slice")}
         /\ DOMAIN functions = {<<"Vec", "new">>}
         /\ Cardinality(DOMAIN associated_functions) = 17
         /\ Cardinality(MembersOf("Vec")) = 13
         /\ Cardinality(MembersOf("Slice")) = 4
         /\ HasMember("Vec", StrName("len"), "Vec::len")
         /\ HasMember("Slice", StrName("len"), "Slice::len")
         /\ HasMember("Vec", StrName("get"), "vec_get")
         /\ HasMember("Vec", HashName(ProtocolHash("INDEX_GET")), "vec_get")
         /\ HasMember("Vec", StrName("iter"), "Vec::into_iterator")
         /\ HasMember("Vec", HashName(ProtocolHash("INTO_ITER")),
                      "Vec::into_iterator")
         /\ HasMember("Vec", HashName(ProtocolHash("INDEX_SET")), "Vec::set")
         /\ HasMember("Slice", HashName(ProtocolHash("INDEX_GET")), "slice_get")
         /\ HasMember("Slice", HashName(ProtocolHash("INDEX_SET")), "Slice::set")
         /\ HasMember("Slice", HashName(ProtocolHash("STRING_DEBUG")),
                      "Slice::string_debug")

C36_Witness ==
    /\ StdVecBuilt
    /\ Cardinality(DOMAIN associated_functions) = 17
    /\ got.op = "vec_get"
    /\ slice.some

(***************************************************************************)
(* A Module on which the deriving type Meter, whose annotations carry      *)
(* custom paths, is registered next to field functions written by hand.    *)
(***************************************************************************)
MeterProtocols == {"GET", "ADD_ASSIGN"}

MeterFieldFns == {"level_copy", "Meter::read", "level_add_assign", "Meter::add"}

RegMeterTy == RegTyOf({"Meter"})

RegMeterFieldFn == RegFieldFnOf(MeterProtocols, {StrName("level")}, MeterFieldFns)

NextCustom ==
    \/ RegMeterTy
    \/ RegMeterFieldFn

SpecCustom == Init /\ [][NextCustom]_vars

\* The field function of Meter stored for a field and a protocol.
MeterFieldFn(tab, name, protocol) ==
    tab[ModuleAssocKey(TypeHash("Meter"), HashOf(name), KindFieldFn(protocol))]
        .handler.f

\* C37: the hook generated for Meter registers the custom path for a
\* compound-assignment protocol that names one (add_assign = "Meter::add")
\* and the default operator closure for one that names none (sub_assign);
\* for get and set it registers the default accessor, the copy of a copy
\* field, the clone of another and plain assignment, although each of
\* them names a custom path, and the custom paths of get and set are
\* registered for no member.
C37_CustomPathOnlyForCompoundAssign ==
    [][(/\ RegStep
        /\ result'.op = "ty"
        /\ result'.arg = "Meter"
        /\ result'.res = Ok) =>
         /\ MeterFieldFn(associated_functions', "level", "ADD_ASSIGN")
              = "Meter::add"
         /\ MeterFieldFn(associated_functions', "level", "SUB_ASSIGN")
              = "level_sub_assign"
         /\ MeterFieldFn(associated_functions', "level", "GET") = "level_copy"
         /\ MeterFieldFn(associated_functions', "level", "SET") = "level_set"
         /\ MeterFieldFn(associated_functions', "label", "GET") = "label_clone"
         /\ \A k \in DOMAIN associated_functions' \ DOMAIN associated_functions :
                associated_functions'[k].handler.f
                    \notin {"Meter::read", "Meter::write", "Meter::label"}]_vars

\* ty(Meter) succeeded and its hook registered the five field functions.
C37_Witness ==
    /\ result.op = "ty"
    /\ result.arg = "Meter"
    /\ result.res = Ok
    /\ Cardinality(DOMAIN associated_functions) = 5
    /\ MeterFieldFn(associated_functions, "level", "ADD_ASSIGN") = "Meter::add"
    /\ MeterFieldFn(associated_functions, "level", "GET") = "level_copy"

(***************************************************************************)
(* A Module from each constructor, on which every registration operation   *)
(* is made.  The crate of an Item is its first component.                  *)
(***************************************************************************)
inner_new_keeps_unit_type(i) ==
    [item |-> i, functions |-> EmptyMap, macros |-> EmptyMap,
     associated_functions |-> EmptyMap, types |-> EmptyMap,
     unit_type |-> ModuleUnitType("unit"), internal_enums |-> <<>>,
     constants |-> EmptyMap]

\* Module::inner_new.
inner_new(i) ==
    [item |-> i, functions |-> EmptyMap, macros |-> EmptyMap,
     associated_functions |-> EmptyMap, types |-> EmptyMap,
     unit_type |-> NoUnitType, internal_enums |-> <<>>,
     constants |-> EmptyMap]

\* Module::new: the derived Default, which is the Module of the root Item.
Module_new == inner_new(<<>>)

with_item(iter) == inner_new(iter)

with_crate(name) == inner_new(<<name>>)

with_crate_item(name, iter) == inner_new(<<name>> \o iter)

NewModules ==
    {Module_new, with_item(<<"vec">>), with_crate("std"),
     with_crate_item("std", <<"vec">>)}

\* The run-time state before the interpreter starts.
InitRun ==
    /\ stack = <<>>
    /\ access = [c \in Containers |-> Free]
    /\ held = [c \in Containers |-> Free]
    /\ fields = [c \in Containers |-> IF c = "c1" THEN 0 ELSE 1]
    /\ futures = EmptyMap
    /\ last = NoLast
    /\ ncalls = 0
    /\ vec = <<>>
    /\ slice = NoSlice
    /\ got = NoGot
    /\ vec_access = Free

InitFrame ==
    /\ \E m \in NewModules :
        /\ item = m.item
        /\ functions = m.functions
        /\ macros = m.macros
        /\ associated_functions = m.associated_functions
        /\ types = m.types
        /\ unit_type = m.unit_type
        /\ internal_enums = m.internal_enums
        /\ constants = m.constants
    /\ result = [op |-> "new", arg |-> item, res |-> Ok]
    /\ nops = 0
    /\ InitRun

RegOneAsyncFunction ==
    \E name \in {<<"empty">>}, f \in AsyncFreeFns :
        LET r == async_function(functions, name, f)
        IN  /\ functions' = r.tab
            /\ Registered("async_function", name, r)
            /\ UNCHANGED <<associated_functions, types>>

RegOneRawFn ==
    \E name \in {<<"empty">>}, f \in RawFns :
        LET r == raw_fn(functions, name, f)
        IN  /\ functions' = r.tab
            /\ Registered("raw_fn", name, r)
            /\ UNCHANGED <<associated_functions, types>>

RegValueInstFn == RegInstFnOf({StrName("value")}, {"value"})

RegValueFieldFn == RegFieldFnOf({"GET"}, {StrName("value")}, {"value"})

RegOneAsyncInstFn ==
    \E name \in {StrName("value")}, f \in AsyncInstFns :
        LET r == async_inst_fn(associated_functions, name, f)
        IN  /\ associated_functions' = r.tab
            /\ Registered("async_inst_fn", AssocKeyOf(name, f, KindInstance), r)
            /\ UNCHANGED <<functions, types>>

RegOneMacro ==
    \E name \in {<<"empty">>}, f \in {"passthrough"} :
        LET r == macro_(macros, name, f)
        IN  /\ macros' = r.tab
            /\ RegisteredData("macro_", name, r)
            /\ UNCHANGED <<constants, unit_type, internal_enums>>

RegFrameTy == RegTyOf({"Counter", "MyBytes"})

NextFrame ==
    \/ RegOneFunction
    \/ RegOneAsyncFunction
    \/ RegOneRawFn
    \/ RegOneMacro
    \/ RegOneConstant
    \/ RegValueInstFn
    \/ RegValueFieldFn
    \/ RegOneAsyncInstFn
    \/ RegUnit
    \/ RegOption
    \/ RegResult
    \/ RegGeneratorState
    \/ RegFrameTy

SpecFrame == InitFrame /\ [][NextFrame]_vars

\* The members the hook of a type of this Module registers.
FrameHookKeys(T) ==
    IF T = "Counter"
    THEN {ModuleAssocKey(TypeHash("Counter"), HashOf("value"), KindFieldFn("GET"))}
    ELSE {}

\* C38: a Module that a constructor has just returned has every table
\* empty, no unit type and no internal enum.  A registration never changes
\* the Item of the Module and changes no table but its own: function,
\* async_function and raw_fn only functions, macro_ only macros, constant
\* only constants, inst_fn, field_fn and async_inst_fn only
\* associated_functions, unit only unit_type, option, result and
\* generator_state only internal_enums, and ty only types and, in
\* associated_functions, the members its hook adds.
C38_RegistrationFrame ==
    /\ [](nops = 0 =>
            /\ functions = EmptyMap
            /\ macros = EmptyMap
            /\ constants = EmptyMap
            /\ associated_functions = EmptyMap
            /\ types = EmptyMap
            /\ unit_type = NoUnitType
            /\ internal_enums = <<>>)
    /\ [][RegStep =>
            /\ item' = item
            /\ result'.op \in FnOps =>
                 UNCHANGED <<macros, constants, associated_functions, types,
                             unit_type, internal_enums>>
            /\ result'.op = "macro_" =>
                 UNCHANGED <<functions, constants, associated_functions, types,
                             unit_type, internal_enums>>
            /\ result'.op = "constant" =>
                 UNCHANGED <<functions, macros, associated_functions, types,
                             unit_type, internal_enums>>
            /\ result'.op \in AssocOps =>
                 UNCHANGED <<functions, macros, constants, types, unit_type,
                             internal_enums>>
            /\ result'.op = "unit" =>
                 UNCHANGED <<functions, macros, constants,
                             associated_functions, types, internal_enums>>
            /\ result'.op \in EnumOps =>
                 UNCHANGED <<functions, macros, constants,
                             associated_functions, types, unit_type>>
            /\ result'.op = "ty" =>
                 /\ UNCHANGED <<functions, macros, constants, unit_type,
                                internal_enums>>
                 /\ DOMAIN associated_functions' \ DOMAIN associated_functions
                      \subseteq FrameHookKeys(result'.arg)
                 /\ \A k \in DOMAIN associated_functions :
                        /\ k \in DOMAIN associated_functions'
                        /\ associated_functions'[k] = associated_functions[k]
            /\ result'.op \in FnOps \cup AssocOps \cup EnumOps
                    \cup {"macro_", "constant", "unit", "ty"}]_vars

\* A Module made by with_crate_item on which a function, a unit type and
\* the type Counter were registered: each is in its own table and the
\* others are as the constructor left them.
C38_Witness ==
    /\ item = <<"std", "vec">>
    /\ nops = 3
    /\ ContainsKey(functions, <<"empty">>)
    /\ unit_type # NoUnitType
    /\ ContainsKey(types, TypeHash("Counter"))
    /\ Cardinality(DOMAIN associated_functions) = 1
    /\ macros = EmptyMap
    /\ constants = EmptyMap
    /\ internal_enums = <<>>

====
